---- MODULE Spec2Model ----
(***************************************************************************)
(* JWT Token Detective: the background service worker's token index.      *)
(*                                                                         *)
(* The model follows src/src/background/background.ts (the class           *)
(* JWTDetectorBackground), src/src/utils/jwt.ts (the class JWTUtils and    *)
(* the second JWTDetectorBackground, whose cleanup the README documents)   *)
(* and src/src/popup/popup.ts (the class JWTPopup).                        *)
(*                                                                         *)
(* Text.  A string is a sequence of atoms.  An atom stands for a maximal   *)
(* run of characters without a dot, or for the dot itself:                 *)
(*   [c |-> ".",   n |-> 0]   the character "."                            *)
(*   [c |-> "hdr", n |-> i]   base64url text of the JSON header object i   *)
(*   [c |-> "pay", n |-> k]   base64url text of the JSON payload object k  *)
(*   [c |-> "sig", n |-> j]   signature text j                             *)
(*   [c |-> "json", n |-> i]  base64url text of the JSON value i that is   *)
(*                            not an object (null, a number, a string, an  *)
(*                            array)                                       *)
(*   [c |-> "bad", n |-> 0]   text that is not base64url of any JSON       *)
(*   [c |-> "sha", of |-> s]  the 16 hex characters generateTokenId        *)
(*                            computes for the text s                      *)
(*   [c |-> "word", text |-> w]  the letters w (an authentication scheme)  *)
(*   [c |-> "ws", n |-> i]    one whitespace character (0 space, 1 tab)    *)
(*                                                                         *)
(* Time.  Instants are integers, milliseconds since the epoch (Date.now()   *)
(* and Date.getTime()); the service worker starts at the epoch.  An        *)
(* optional instant (Date | null) is a sequence of length 0 or 1.          *)
(***************************************************************************)
EXTENDS Integers, Sequences, FiniteSets, TLC

VARIABLES
    store,      \* chrome.storage.local["jwt_detector_data"]: <<>> or <<blob>>
    now,        \* Date.now()
    nextId,     \* number of request ids generateRequestId has handed out
    tasks,      \* the asynchronous calls in flight (handleRequest, cleanupOldData)
    lost,       \* history: ids of persisted requests a save wiped without having loaded them
    inserted,   \* history (sequential specifications): the tokenIds of the groups created, oldest first
    call,       \* the last call of a function of JWTUtils, of a getStorage or of handleRequest: name, arguments, result
    effects,    \* history: the calls made so far that carry data out of the program's memory
    popup       \* the popup: the groups it shows, the expanded ones, and the clipboard

vars == <<store, now, nextId, tasks, lost, inserted, call, effects, popup>>

(***************************************************************************)
(* Program constants                                                       *)
(***************************************************************************)
MAX_TOKEN_GROUPS == 100

RETENTION_HOURS == 24

MAX_REQUESTS_PER_GROUP == 50

HourMs == 60 * 60 * 1000

\* The class JWTDetectorBackground of src/src/utils/jwt.ts (the cleanup the
\* README documents): its RETENTION_HOURS.
README_RETENTION_HOURS == 2

(***************************************************************************)
(* Bounds of the model                                                     *)
(***************************************************************************)
\* The clock advances in steps of TickHours hours.
TickHours == 12

\* Sequential specification: at most MaxTicks steps of the clock and
\* MaxRequests request events.
MaxTicks == 3

MaxRequests == 3

\* Main (interleaved) specification: at most MaxRaceTicks advances of the
\* clock, of RaceTickSteps steps each, and MaxRaceRequests request events.
MaxRaceTicks == 1

RaceTickSteps == 3

MaxRaceRequests == 2

\* Group-cap specification: MaxUpserts request events, with new credentials
\* until the index is full.
MaxUpserts == 102

\* Request-cap specification: MaxAppends request events with one credential;
\* the clock moves and events overtake each other from the event that fills
\* the list to the CapWindow-th event after it.
MaxAppends == 60

CapWindow == 2

\* Expiry-cleanup specification: the clock advances MaxExpiryTicks times by
\* ExpiryTickMinutes minutes.
ExpiryTickMinutes == 30

MaxExpiryTicks == 6

\* The time values a Date can hold are -MaxDateMs..MaxDateMs; the bound stands
\* for ECMAScript's 8.64e15 ms, far beyond every instant the clock reaches.
MaxDateMs == 2000000000

(***************************************************************************)
(* Text helpers                                                            *)
(***************************************************************************)
Dot == [c |-> ".", n |-> 0]

Hdr(i) == [c |-> "hdr", n |-> i]

Pay(k) == [c |-> "pay", n |-> k]

Sig(j) == [c |-> "sig", n |-> j]

NonObject(i) == [c |-> "json", n |-> i]

Bad == [c |-> "bad", n |-> 0]

Word(w) == [c |-> "word", text |-> w]

Space == [c |-> "ws", n |-> 0]

Tab == [c |-> "ws", n |-> 1]

\* String.prototype.toLowerCase, and the folding of the regular expression
\* flag i, on the names and words of the model.
ToLowerCase(text) ==
    CASE text \in {"Authorization", "AUTHORIZATION"} -> "authorization"
      [] text \in {"Bearer", "BEARER"} -> "bearer"
      [] text = "Basic" -> "basic"
      [] OTHER -> text

\* String.prototype.split("."): the maximal dot-free pieces, empty ones included.
RECURSIVE SplitFrom(_, _, _)
SplitFrom(str, i, cur) ==
    IF i > Len(str) THEN <<cur>>
    ELSE IF str[i] = Dot THEN <<cur>> \o SplitFrom(str, i + 1, <<>>)
    ELSE SplitFrom(str, i + 1, Append(cur, str[i]))

SplitDots(str) == SplitFrom(str, 1, <<>>)

\* A credential written from its three segments: `${h}.${p}.${s}`.
Jwt(h, p, s) == h \o <<Dot>> \o p \o <<Dot>> \o s

(***************************************************************************)
(* Date                                                                    *)
(***************************************************************************)
\* getTime() of an Invalid Date: a value outside the range of time values.
NaN == MaxDateMs + 1

\* isNaN(date.getTime())
IsNaN(ms) == ms > MaxDateMs \/ ms < -MaxDateMs

\* new Date(number).getTime()
TimeClip(ms) == IF IsNaN(ms) THEN NaN ELSE ms

\* a > b and a < b on getTime() values: false when an operand is NaN.
GreaterThan(a, b) == ~IsNaN(a) /\ ~IsNaN(b) /\ a > b

LessThan(a, b) == ~IsNaN(a) /\ ~IsNaN(b) /\ a < b

(***************************************************************************)
(* JWTUtils (src/src/utils/jwt.ts)                                         *)
(***************************************************************************)
\* Mutant of ExtractBearerToken: the pattern has no flag i.
ExtractBearerTokenCaseSensitive(authHeader) ==
    LET runs == {k \in 0..(Len(authHeader) - 1) : \A i \in 2..(k + 1) : authHeader[i].c = "ws"}
        run == CHOOSE k \in runs : \A m \in runs : m <= k
        spaces == IF run = Len(authHeader) - 1 THEN run - 1 ELSE run
    IN IF Len(authHeader) = 0 THEN <<>>
       ELSE IF ~(authHeader[1].c = "word" /\ authHeader[1].text = "Bearer") THEN <<>>
       ELSE IF spaces < 1 THEN <<>>
       ELSE << SubSeq(authHeader, spaces + 2, Len(authHeader)) >>

\* extractBearerToken: authHeader.match(/^Bearer\s+(.+)$/i), <<group 1>> or
\* <<>> (null).  \s+ takes the longest run of whitespace that leaves (.+) at
\* least one character; a header value holds no line terminator.
ExtractBearerToken(authHeader) ==
    LET runs == {k \in 0..(Len(authHeader) - 1) : \A i \in 2..(k + 1) : authHeader[i].c = "ws"}
        run == CHOOSE k \in runs : \A m \in runs : m <= k
        spaces == IF run = Len(authHeader) - 1 THEN run - 1 ELSE run
    IN IF Len(authHeader) = 0 THEN <<>>
       ELSE IF ~(authHeader[1].c = "word" /\ ToLowerCase(authHeader[1].text) = "bearer") THEN <<>>
       ELSE IF spaces < 1 THEN <<>>
       ELSE << SubSeq(authHeader, spaces + 2, Len(authHeader)) >>

\* The exp claim of payload object k: <<seconds>> or <<>> (no exp claim).
\* The payload objects 0, -1, -2, ... carry exp: 0, one hour, two hours, ...;
\* the payload object FarPastPayload carries an exp whose instant is before
\* every time value a Date can hold.
FarPastPayload == 1000

ExpClaim(k) ==
    CASE k <= 0    -> <<(-k) * 60 * 60>>
      [] k = FarPastPayload -> << -(MaxDateMs \div 1000) - 1 >>
      [] k % 3 = 1 -> <<12 * 60 * 60>>
      [] k % 3 = 2 -> <<>>
      [] OTHER     -> <<48 * 60 * 60>>

\* JSON.parse(base64UrlDecode(segment)): <<value>>, or <<>> when atob or
\* JSON.parse throws (the empty segment: JSON.parse("") throws).  Every JSON
\* text decodes, an object or not; `exp` is what value.exp reads, <<>> when
\* it is not a number (a value that is null is read behind `!payload`).
DecodeSegment(seg) ==
    IF Len(seg) # 1 THEN <<>>
    ELSE IF seg[1].c = "hdr" THEN << [kind |-> "hdr", n |-> seg[1].n, exp |-> <<>>] >>
    ELSE IF seg[1].c = "pay" THEN << [kind |-> "pay", n |-> seg[1].n, exp |-> ExpClaim(seg[1].n)] >>
    ELSE IF seg[1].c = "json" THEN << [kind |-> "json", n |-> seg[1].n, exp |-> <<>>] >>
    ELSE <<>>

\* parseJWT: <<[header, payload, signature]>>, or <<>> for null.
ParseJWT(token) ==
    LET parts == SplitDots(token) IN
    IF Len(parts) # 3 THEN <<>>
    ELSE IF DecodeSegment(parts[1]) = <<>> \/ DecodeSegment(parts[2]) = <<>> THEN <<>>
    ELSE << [header    |-> DecodeSegment(parts[1])[1],
             payload   |-> DecodeSegment(parts[2])[1],
             signature |-> parts[3]] >>

\* getExpiryDate: <<ms>> or <<>> (null).
GetExpiryDate(payload) ==
    IF payload.exp = <<>> THEN <<>>
    ELSE IF IsNaN(TimeClip(payload.exp[1] * 1000)) THEN <<>>
    ELSE << TimeClip(payload.exp[1] * 1000) >>

\* Mutant of IsTokenExpired: the comparison is <= instead of <.
IsTokenExpiredInclusive(payload, t) ==
    LET expiryDate == GetExpiryDate(payload) IN
    IF expiryDate = <<>> THEN FALSE ELSE expiryDate[1] <= t

\* isTokenExpired, with Date.now() = t.
IsTokenExpired(payload, t) ==
    LET expiryDate == GetExpiryDate(payload) IN
    IF expiryDate = <<>> THEN FALSE ELSE expiryDate[1] < t

\* The first 16 hex characters of SHA-256 of the text: one atom naming its input
\* (distinct inputs of the model get distinct digests).
Sha256Hex16(text) == << [c |-> "sha", of |-> text] >>

\* Mutant of GenerateTokenId: the digest is taken of the whole credential.
GenerateTokenIdOfAll(token) ==
    IF Len(SplitDots(token)) # 3 THEN token ELSE Sha256Hex16(token)

\* generateTokenId
GenerateTokenId(token) ==
    LET parts == SplitDots(token) IN
    IF Len(parts) # 3 THEN token
    ELSE Sha256Hex16(parts[2] \o <<Dot>> \o parts[3])

\* createTokenGroup: <<group>> or <<>> (null); Date.now() = t.
CreateTokenGroup(token, requestInfo, t) ==
    LET parsed == ParseJWT(token) IN
    IF parsed = <<>> THEN <<>>
    ELSE << [tokenId    |-> GenerateTokenId(token),
             raw        |-> token,
             header     |-> parsed[1].header,
             payload    |-> parsed[1].payload,
             signature  |-> parsed[1].signature,
             expiryDate |-> GetExpiryDate(parsed[1].payload),
             isExpired  |-> IsTokenExpired(parsed[1].payload, t),
             requests   |-> <<requestInfo>>,
             firstSeen  |-> requestInfo.timestamp,
             lastSeen   |-> requestInfo.timestamp,
             isValid    |-> TRUE] >>

(***************************************************************************)
(* Array helpers                                                           *)
(***************************************************************************)
Min2(a, b) == IF a < b THEN a ELSE b

\* Array.prototype.slice(0, n)
SliceTo(arr, n) == SubSeq(arr, 1, Min2(n, Len(arr)))

\* Mutant of FindIndexByTokenId: the lookup compares the raw credential.
FindIndexByRaw(tokenGroups, tokenId) ==
    LET hits == {i \in 1..Len(tokenGroups) : tokenGroups[i].raw = tokenId} IN
    IF hits = {} THEN 0 ELSE CHOOSE i \in hits : \A j \in hits : i <= j

\* tokenGroups.findIndex((group) => group.tokenId === tokenId), 1-based;
\* 0 stands for -1.
FindIndexByTokenId(tokenGroups, tokenId) ==
    LET hits == {i \in 1..Len(tokenGroups) : tokenGroups[i].tokenId = tokenId} IN
    IF hits = {} THEN 0 ELSE CHOOSE i \in hits : \A j \in hits : i <= j

\* The records of the given timestamps, newest timestamp first, records of
\* one timestamp in the order they have in `requests`.
RECURSIVE SortedFrom(_, _)
SortedFrom(requests, stamps) ==
    IF stamps = {} THEN <<>>
    ELSE LET newest == CHOOSE t \in stamps : \A u \in stamps : u <= t
         IN SelectSeq(requests, LAMBDA r : r.timestamp = newest)
            \o SortedFrom(requests, stamps \ {newest})

\* requests.sort((a, b) => b.timestamp.getTime() - a.timestamp.getTime()):
\* descending by timestamp, and stable (Array.prototype.sort keeps the order
\* of records the comparator calls equal).
SortByTimestampDesc(requests) ==
    SortedFrom(requests, {requests[i].timestamp : i \in 1..Len(requests)})

(***************************************************************************)
(* The Storage Adapter (chrome.storage.local), getStorage and saveStorage  *)
(***************************************************************************)
STORAGE_KEY == "jwt_detector_data"

\* Mutant of StorageSetCall: the data is posted to a server.
FetchCall == [api |-> "fetch", target |-> "https://collector.example"]

\* The calls that hand data to, or take it from, something outside the
\* program's memory: chrome.storage.local.get and .set of the worker, the
\* popup's chrome.storage.local.get, and navigator.clipboard.writeText.
StorageGetCall == [api |-> "chrome.storage.local.get", target |-> STORAGE_KEY]

StorageSetCall == [api |-> "chrome.storage.local.set", target |-> STORAGE_KEY]

PopupStorageGetCall == [api |-> "chrome.storage.local.get", target |-> "jwt_detector_data"]

ClipboardWriteCall == [api |-> "navigator.clipboard.writeText", target |-> "clipboard"]

\* What the store keeps of a Date: a round-trippable timestamp text.
StoredDate(ms) == [iso |-> ms]

\* A stored timestamp that is not the text of any date.
UnparseableDate == [text |-> "not a date"]

\* new Date(stored).getTime()
NewDate(stored) == IF "iso" \in DOMAIN stored THEN TimeClip(stored.iso) ELSE NaN

StoredRequest(req) == [req EXCEPT !.timestamp = StoredDate(req.timestamp)]

StoredGroup(group) ==
    [group EXCEPT
        !.expiryDate = IF group.expiryDate = <<>> THEN <<>>
                       ELSE <<StoredDate(group.expiryDate[1])>>,
        !.firstSeen  = StoredDate(group.firstSeen),
        !.lastSeen   = StoredDate(group.lastSeen),
        !.requests   = [i \in 1..Len(group.requests) |-> StoredRequest(group.requests[i])]]

\* saveStorage: the value chrome.storage.local.set leaves under STORAGE_KEY.
SaveStorage(data) ==
    << [tokenGroups |-> [i \in 1..Len(data.tokenGroups) |-> StoredGroup(data.tokenGroups[i])]] >>

LoadedRequest(req) == [req EXCEPT !.timestamp = NewDate(req.timestamp)]

LoadedGroup(group) ==
    [group EXCEPT
        !.expiryDate = IF group.expiryDate = <<>> THEN <<>>
                       ELSE <<NewDate(group.expiryDate[1])>>,
        !.firstSeen  = NewDate(group.firstSeen),
        !.lastSeen   = NewDate(group.lastSeen),
        !.requests   = [i \in 1..Len(group.requests) |-> LoadedRequest(group.requests[i])]]

\* getStorage: the ExtensionStorage built from the value found under STORAGE_KEY.
GetStorage(stored) ==
    IF stored = <<>> THEN [tokenGroups |-> <<>>]
    ELSE [tokenGroups |->
            [i \in 1..Len(stored[1].tokenGroups) |-> LoadedGroup(stored[1].tokenGroups[i])]]

(***************************************************************************)
(* The presentation layer's load (src/src/popup/popup.ts)                  *)
(***************************************************************************)
\* parseDate: <<ms>> or <<>> (null); dateValue is <<stored>> or <<>>.
ParseDate(dateValue) ==
    IF dateValue = <<>> THEN <<>>
    ELSE IF IsNaN(NewDate(dateValue[1])) THEN <<>>
    ELSE << NewDate(dateValue[1]) >>

\* parseDate(value) || new Date(), with Date.now() = t.
ParseDateOrNow(dateValue, t) ==
    IF ParseDate(dateValue) = <<>> THEN t ELSE ParseDate(dateValue)[1]

\* Lines 46-74: the map callback of JWTPopup.getStorage.
PopupLoadedGroup(group, t) ==
    LET parsedExpiryDate == ParseDate(group.expiryDate) IN
    [group EXCEPT
        !.expiryDate = parsedExpiryDate,
        !.isExpired  = IF parsedExpiryDate # <<>> THEN parsedExpiryDate[1] < t
                       ELSE IF group.payload.exp # <<>> THEN group.payload.exp[1] * 1000 < t
                       ELSE group.isExpired,
        !.firstSeen  = ParseDateOrNow(<<group.firstSeen>>, t),
        !.lastSeen   = ParseDateOrNow(<<group.lastSeen>>, t),
        !.requests   = [i \in 1..Len(group.requests) |->
                           [group.requests[i] EXCEPT
                               !.timestamp = ParseDateOrNow(<<group.requests[i].timestamp>>, t)]]]

\* JWTPopup.getStorage, with Date.now() = t.
PopupGetStorage(stored, t) ==
    IF stored = <<>> THEN [tokenGroups |-> <<>>]
    ELSE IF "tokenGroups" \notin DOMAIN stored[1] THEN [tokenGroups |-> <<>>]
    ELSE [tokenGroups |->
            [i \in 1..Len(stored[1].tokenGroups) |-> PopupLoadedGroup(stored[1].tokenGroups[i], t)]]

\* The groups of the given lastSeen values, the most recent value first,
\* groups of one value in the order they have in `tokenGroups`.
RECURSIVE GroupsSortedFrom(_, _)
GroupsSortedFrom(tokenGroups, stamps) ==
    IF stamps = {} THEN <<>>
    ELSE LET newest == CHOOSE t \in stamps : \A u \in stamps : u <= t
         IN SelectSeq(tokenGroups, LAMBDA group : group.lastSeen = newest)
            \o GroupsSortedFrom(tokenGroups, stamps \ {newest})

\* renderTokens, lines 127-129: tokenGroups.sort(...) by lastSeen, most
\* recent first (Array.prototype.sort is stable).
SortByLastSeenDesc(tokenGroups) ==
    GroupsSortedFrom(tokenGroups, {tokenGroups[i].lastSeen : i \in 1..Len(tokenGroups)})

\* createTokenElement: renderRequests sorts the group's requests in place,
\* most recent first, before setupTokenEvents closes over the group.
RenderedGroup(group) == [group EXCEPT !.requests = SortByTimestampDesc(group.requests)]

\* renderTokens: the groups of the elements it appends, in their order.
RenderTokens(tokenGroups) ==
    LET sortedGroups == SortByLastSeenDesc(tokenGroups) IN
    [i \in 1..Len(sortedGroups) |-> RenderedGroup(sortedGroups[i])]

\* Mutant of ClipboardText: the copy button copies the shown identity.
ClipboardTextOfTokenId(group) == group.tokenId

\* Line 256: the text the copy button hands to copyToClipboard.
ClipboardText(group) == group.raw

(***************************************************************************)
(* storeTokenData, from the resolved getStorage() to the saveStorage call  *)
(***************************************************************************)
\* The index of the group storeTokenData updates (0: none).
ExistingGroupIndex(storage, token) ==
    FindIndexByTokenId(storage.tokenGroups, GenerateTokenId(token))

\* Mutant of TrimRequests: the comparator is reversed (a - b), oldest first.
TrimRequestsOldestFirst(requests) ==
    IF Len(requests) > MAX_REQUESTS_PER_GROUP
    THEN LET sorted == SortByTimestampDesc(requests) IN
         [i \in 1..MAX_REQUESTS_PER_GROUP |-> sorted[Len(sorted) + 1 - i]]
    ELSE requests

\* Lines 106-111: keep only the 50 most recent requests.
TrimRequests(requests) ==
    IF Len(requests) > MAX_REQUESTS_PER_GROUP
    THEN SliceTo(SortByTimestampDesc(requests), MAX_REQUESTS_PER_GROUP)
    ELSE requests

\* Mutant of UpdateExistingGroup: the group takes the raw text and the header
\* of the credential just seen.
UpdateExistingGroupLatestRaw(existingGroup, token, requestInfo, t) ==
    LET parsed == ParseJWT(token) IN
    [existingGroup EXCEPT
        !.raw       = token,
        !.header    = IF parsed # <<>> THEN parsed[1].header ELSE existingGroup.header,
        !.requests  = TrimRequests(Append(existingGroup.requests, requestInfo)),
        !.lastSeen  = requestInfo.timestamp,
        !.isExpired = IF parsed # <<>> THEN IsTokenExpired(parsed[1].payload, t)
                      ELSE existingGroup.isExpired]

\* Mutant of UpdateExistingGroup: the request record is pushed twice.
UpdateExistingGroupTwice(existingGroup, token, requestInfo, t) ==
    LET parsed == ParseJWT(token) IN
    [existingGroup EXCEPT
        !.requests  = TrimRequests(existingGroup.requests \o <<requestInfo, requestInfo>>),
        !.lastSeen  = requestInfo.timestamp,
        !.isExpired = IF parsed # <<>> THEN IsTokenExpired(parsed[1].payload, t)
                      ELSE existingGroup.isExpired]

\* Lines 90-111: the branch "update existing group".
UpdateExistingGroup(existingGroup, token, requestInfo, t) ==
    LET parsed == ParseJWT(token) IN
    [existingGroup EXCEPT
        !.requests  = TrimRequests(Append(existingGroup.requests, requestInfo)),
        !.lastSeen  = requestInfo.timestamp,
        !.isExpired = IF parsed # <<>> THEN IsTokenExpired(parsed[1].payload, t)
                      ELSE existingGroup.isExpired]

\* Mutant of LimitGroups: the number of groups is not limited.
LimitGroupsNever(tokenGroups) == tokenGroups

\* Mutant of LimitGroups: the cap keeps the tail, slice(-MAX_TOKEN_GROUPS).
LimitGroupsKeepTail(tokenGroups) ==
    IF Len(tokenGroups) > MAX_TOKEN_GROUPS
    THEN SubSeq(tokenGroups, Len(tokenGroups) - MAX_TOKEN_GROUPS + 1, Len(tokenGroups))
    ELSE tokenGroups

\* Lines 128-134: limit the total number of token groups.
LimitGroups(tokenGroups) ==
    IF Len(tokenGroups) > MAX_TOKEN_GROUPS THEN SliceTo(tokenGroups, MAX_TOKEN_GROUPS)
    ELSE tokenGroups

\* Mutant of AddGroup: the new group replaces the index.
AddGroupAlone(tokenGroups, newGroup) == <<newGroup>>

\* Mutant of AddGroup: push instead of unshift.
AddGroupAtEnd(tokenGroups, newGroup) == Append(tokenGroups, newGroup)

\* Line 122: storage.tokenGroups.unshift(newGroup).
AddGroup(tokenGroups, newGroup) == <<newGroup>> \o tokenGroups

\* The storage object storeTokenData passes to saveStorage; Date.now() = t.
StoreTokenData(storage, token, requestInfo, t) ==
    LET idx == ExistingGroupIndex(storage, token)
        newGroup == CreateTokenGroup(token, requestInfo, t)
        groups ==
            IF idx > 0
            THEN [storage.tokenGroups EXCEPT
                    ![idx] = UpdateExistingGroup(storage.tokenGroups[idx], token, requestInfo, t)]
            ELSE IF newGroup # <<>> THEN AddGroup(storage.tokenGroups, newGroup[1])
            ELSE storage.tokenGroups
    IN [tokenGroups |-> LimitGroups(groups)]

(***************************************************************************)
(* cleanupOldData, from the resolved getStorage() to the saveStorage call  *)
(***************************************************************************)
CutoffTime(t) == t - RETENTION_HOURS * 60 * 60 * 1000

\* Mutant of UpdatedGroup: the sweep also sets lastSeen to its own time.
UpdatedGroupTouched(group, t) ==
    [group EXCEPT
        !.isExpired = IsTokenExpired(group.payload, t),
        !.lastSeen  = t,
        !.requests  = SelectSeq(group.requests,
                                LAMBDA req : GreaterThan(req.timestamp, CutoffTime(t)))]

\* Mutant of UpdatedGroup: isExpired is left as it was stored.
UpdatedGroupStaleExpiry(group, t) ==
    [group EXCEPT
        !.requests  = SelectSeq(group.requests,
                                LAMBDA req : GreaterThan(req.timestamp, CutoffTime(t)))]

\* Mutant of UpdatedGroup: the age test is >= instead of >.
UpdatedGroupInclusive(group, t) ==
    [group EXCEPT
        !.isExpired = IsTokenExpired(group.payload, t),
        !.requests  = SelectSeq(group.requests,
                                LAMBDA req : ~IsNaN(req.timestamp) /\ req.timestamp >= CutoffTime(t))]

\* Lines 234-246: the map callback.
UpdatedGroup(group, t) ==
    [group EXCEPT
        !.isExpired = IsTokenExpired(group.payload, t),
        !.requests  = SelectSeq(group.requests,
                                LAMBDA req : GreaterThan(req.timestamp, CutoffTime(t)))]

\* Mutant of KeepGroup: an expired credential's group is removed as well.
KeepGroupUnlessExpired(group, t) ==
    LET hasRecentRequests == Len(group.requests) > 0
        groupIsVeryOld    == LessThan(group.lastSeen, CutoffTime(t))
    IN (hasRecentRequests \/ ~groupIsVeryOld) /\ ~IsTokenExpired(group.payload, t)

\* Lines 247-254: the filter callback.
KeepGroup(group, t) ==
    LET hasRecentRequests == Len(group.requests) > 0
        groupIsVeryOld    == LessThan(group.lastSeen, CutoffTime(t))
    IN hasRecentRequests \/ ~groupIsVeryOld

\* Mutant of CleanupOldData: each run also drops the last of the groups that
\* remain.
CleanupOldDataDropLast(storage, t) ==
    LET kept == SelectSeq([i \in 1..Len(storage.tokenGroups) |-> UpdatedGroup(storage.tokenGroups[i], t)],
                          LAMBDA group : KeepGroup(group, t))
    IN [tokenGroups |-> IF kept = <<>> THEN kept ELSE SubSeq(kept, 1, Len(kept) - 1)]

\* Mutant of CleanupOldData: the groups that remain are saved in reverse order.
CleanupOldDataReversed(storage, t) ==
    LET kept == SelectSeq([i \in 1..Len(storage.tokenGroups) |-> UpdatedGroup(storage.tokenGroups[i], t)],
                          LAMBDA group : KeepGroup(group, t))
    IN [tokenGroups |-> [i \in 1..Len(kept) |-> kept[Len(kept) + 1 - i]]]

\* The storage object cleanupOldData passes to saveStorage; Date.now() = t.
CleanupOldData(storage, t) ==
    [tokenGroups |->
        SelectSeq([i \in 1..Len(storage.tokenGroups) |-> UpdatedGroup(storage.tokenGroups[i], t)],
                  LAMBDA group : KeepGroup(group, t))]

(***************************************************************************)
(* cleanupOldData of src/src/utils/jwt.ts (lines 406-526): the cleanup by  *)
(* token expiry that the README documents                                  *)
(***************************************************************************)
ReadmeCutoffTime(t) == t - README_RETENTION_HOURS * 60 * 60 * 1000

\* Lines 420-432: the map callback.
ReadmeUpdatedGroup(group, t) ==
    [group EXCEPT
        !.isExpired = IsTokenExpired(group.payload, t),
        !.requests  = SelectSeq(group.requests,
                                LAMBDA req : GreaterThan(req.timestamp, ReadmeCutoffTime(t)))]

\* `!expiryTime` / `if (expiryTime)`: an optional number is falsy when it is
\* null or 0.
Falsy(num) == num = <<>> \/ num[1] = 0

\* Lines 436-464: expiryTime, <<ms>> or <<>> (null).  After getStorage the
\* group's expiryDate is a Date or null.
ExpiryTime(group) ==
    LET fromDate == IF group.expiryDate # <<>> /\ ~IsNaN(group.expiryDate[1])
                    THEN <<group.expiryDate[1]>> ELSE <<>>
    IN IF Falsy(fromDate) /\ group.payload.exp # <<>>
       THEN <<group.payload.exp[1] * 1000>>
       ELSE fromDate

\* Lines 466-468: hoursExpired > 1.
ExpiredMoreThanAnHour(group, t) ==
    IF Falsy(ExpiryTime(group)) THEN FALSE
    ELSE t - ExpiryTime(group)[1] > 60 * 60 * 1000

\* Lines 433-519: the filter callback.
ReadmeKeepGroup(group, t) ==
    LET isCurrentlyExpired == IsTokenExpired(group.payload, t)
    IN ~isCurrentlyExpired \/ ~ExpiredMoreThanAnHour(group, t)

\* The storage object this cleanupOldData passes to saveStorage; Date.now() = t.
ReadmeCleanupOldData(storage, t) ==
    [tokenGroups |->
        SelectSeq([i \in 1..Len(storage.tokenGroups) |-> ReadmeUpdatedGroup(storage.tokenGroups[i], t)],
                  LAMBDA group : ReadmeKeepGroup(group, t))]

(***************************************************************************)
(* The service worker: request events and sweeps as asynchronous calls     *)
(*                                                                         *)
(* handleRequest builds the request record and calls storeTokenData, which *)
(* awaits getStorage (pc = "load"), then generateTokenId and, for a new    *)
(* credential, createTokenGroup, then saveStorage (pc = "save").           *)
(* cleanupOldData awaits getStorage and then saveStorage (pc = "save").    *)
(* Nothing orders the callbacks of two calls in flight.  In the sequential *)
(* specifications the call that returned last leaves its record in slot 1  *)
(* with pc = "saved" (history only: no action reads it).                   *)
(*                                                                         *)
(* getStorage and saveStorage wrap chrome.storage.local.get / set in a      *)
(* promise that only the callback resolves.  An exception raised inside    *)
(* the get callback is raised outside the promise's executor and outside   *)
(* every try block of the caller: the promise stays pending (pc = "hung"). *)
(* The set callback calls resolve() without reading chrome.runtime         *)
(* .lastError.                                                             *)
(***************************************************************************)
Slots == {1, 2}

TickMs == TickHours * 60 * 60 * 1000

Idle == [kind |-> "idle", pc |-> "none", token |-> <<>>, req |-> <<>>,
         loaded |-> <<>>, storage |-> <<>>, at |-> 0, err |-> "none"]

\* The credentials the request events carry.
TokA == Jwt(<<Hdr(1)>>, <<Pay(1)>>, <<Sig(1)>>)

TokAOtherHeader == Jwt(<<Hdr(2)>>, <<Pay(1)>>, <<Sig(1)>>)

TokABadHeader == Jwt(<<Bad>>, <<Pay(1)>>, <<Sig(1)>>)

TokB == Jwt(<<Hdr(1)>>, <<Pay(2)>>, <<Sig(1)>>)

TokHexOfA == GenerateTokenId(TokA)

Tokens == {TokA, TokAOtherHeader, TokABadHeader, TokB, TokHexOfA}

RaceTokens == {TokA, TokAOtherHeader, TokB}

\* The ids of the request records of a storage object / of a stored value.
RequestIds(storage) ==
    UNION { {storage.tokenGroups[i].requests[j].id : j \in 1..Len(storage.tokenGroups[i].requests)}
            : i \in 1..Len(storage.tokenGroups) }

StoredIds(stored) == IF stored = <<>> THEN {} ELSE RequestIds(stored[1])

\* handleRequest, lines 44-51: the request record of the event.
RequestInfo(id, t) == [id |-> id, timestamp |-> t]

\* The record of a storeTokenData call that has loaded `stored` at time t.
UpsertLoaded(token, req, stored, t) ==
    [kind |-> "upsert", pc |-> "save", token |-> token, req |-> <<req>>,
     loaded |-> <<GetStorage(stored)>>,
     storage |-> <<StoreTokenData(GetStorage(stored), token, req, t)>>,
     at |-> t, err |-> "none"]

\* The record of a cleanupOldData call that has loaded `stored` at time t.
SweepLoaded(stored, t) ==
    [kind |-> "sweep", pc |-> "save", token |-> <<>>, req |-> <<>>,
     loaded |-> <<GetStorage(stored)>>,
     storage |-> <<CleanupOldData(GetStorage(stored), t)>>,
     at |-> t, err |-> "none"]

\* The popup before its first load: nothing shown, nothing copied.
PopupClosed == [tokens |-> <<>>, expanded |-> {}, clipboard |-> <<>>]

\* No function has been called.
NoCall == [fn |-> "none", args |-> <<>>, result |-> <<>>]

\* The call of slot s has not returned ("hung": its promise can no longer settle).
Busy(s) == tasks[s].pc \in {"load", "save", "hung"}

FreeSlot(s) == ~Busy(s) /\ \A r \in Slots : r < s => Busy(r)

Init ==
    /\ store = <<>>
    /\ now = 0
    /\ nextId = 0
    /\ tasks = [s \in Slots |-> Idle]
    /\ lost = {}
    /\ inserted = <<>>
    /\ call = NoCall
    /\ effects = {}
    /\ popup = PopupClosed

\* Time passes.
Tick(maxTicks, steps) ==
    /\ now < maxTicks * steps * TickMs
    /\ now' = now + steps * TickMs
    /\ UNCHANGED <<store, nextId, tasks, lost, inserted, call, effects, popup>>

(***************************************************************************)
(* Main specification: the calls interleave at their awaits                *)
(***************************************************************************)
\* A request event with a bearer credential: handleRequest up to the
\* chrome.storage.local.get call of getStorage.
HandleRequest(s, token) ==
    /\ FreeSlot(s)
    /\ nextId < MaxRaceRequests
    /\ nextId' = nextId + 1
    /\ tasks' = [tasks EXCEPT ![s] = [Idle EXCEPT !.kind = "upsert", !.pc = "load", !.token = token,
                                                   !.req = <<RequestInfo(nextId + 1, now)>>]]
    /\ effects' = effects \cup {StorageGetCall}
    /\ UNCHANGED <<store, now, lost, inserted, call, popup>>

\* The callback of chrome.storage.local.get, in storeTokenData, and the code
\* after it up to the saveStorage call (the digests of generateTokenId
\* resolve within the same instant of the clock).
UpsertLoad(s) ==
    /\ tasks[s].kind = "upsert" /\ tasks[s].pc = "load"
    /\ tasks' = [tasks EXCEPT ![s] = UpsertLoaded(tasks[s].token, tasks[s].req[1], store, now)]
    /\ effects' = effects \cup {StorageSetCall}
    /\ UNCHANGED <<store, now, nextId, lost, inserted, call, popup>>

\* cleanupOldData (setInterval's callback, or the call at startup) from the
\* callback of chrome.storage.local.get up to the saveStorage call.
SweepLoad(s) ==
    /\ FreeSlot(s)
    /\ tasks' = [tasks EXCEPT ![s] = SweepLoaded(store, now)]
    /\ effects' = effects \cup {StorageGetCall, StorageSetCall}
    /\ UNCHANGED <<store, now, nextId, lost, inserted, call, popup>>

\* Mutant of Save: the write is dropped when the stored value is no longer
\* the one the call loaded.
SaveUnlessStale(s) ==
    /\ tasks[s].pc = "save"
    /\ store' = IF GetStorage(store) = tasks[s].loaded[1] THEN SaveStorage(tasks[s].storage[1])
                ELSE store
    /\ lost' = lost
    /\ tasks' = [tasks EXCEPT ![s] = Idle]
    /\ UNCHANGED <<now, nextId, inserted, call, effects, popup>>

\* chrome.storage.local.set takes effect and the call returns.
Save(s) ==
    /\ tasks[s].pc = "save"
    /\ store' = SaveStorage(tasks[s].storage[1])
    /\ lost' = lost \cup ((StoredIds(store) \ RequestIds(tasks[s].loaded[1])) \ StoredIds(store'))
    /\ tasks' = [tasks EXCEPT ![s] = Idle]
    /\ UNCHANGED <<now, nextId, inserted, call, effects, popup>>

Next ==
    \/ Tick(MaxRaceTicks, RaceTickSteps)
    \/ \E s \in Slots, token \in RaceTokens : HandleRequest(s, token)
    \/ \E s \in Slots : UpsertLoad(s)
    \/ \E s \in Slots : SweepLoad(s)
    \/ \E s \in Slots : Save(s)

Spec == Init /\ [][Next]_vars

(***************************************************************************)
(* Sequential specification: every call runs from its event to the return  *)
(* of saveStorage before the next one starts                               *)
(***************************************************************************)
\* handleRequest as a whole, for the next of at most maxRequests events.
Upsert(token, maxRequests) ==
    /\ nextId < maxRequests
    /\ nextId' = nextId + 1
    /\ tasks' = [tasks EXCEPT ![1] =
                    [UpsertLoaded(token, RequestInfo(nextId + 1, now), store, now) EXCEPT !.pc = "saved"]]
    /\ store' = SaveStorage(tasks'[1].storage[1])
    /\ inserted' = IF ExistingGroupIndex(GetStorage(store), token) = 0 /\ ParseJWT(token) # <<>>
                   THEN Append(inserted, GenerateTokenId(token))
                   ELSE inserted
    /\ effects' = effects \cup {StorageGetCall, StorageSetCall}
    /\ UNCHANGED <<now, lost, call, popup>>

\* cleanupOldData as a whole.
Sweep ==
    /\ tasks' = [tasks EXCEPT ![1] = [SweepLoaded(store, now) EXCEPT !.pc = "saved"]]
    /\ store' = SaveStorage(tasks'[1].storage[1])
    /\ effects' = effects \cup {StorageGetCall, StorageSetCall}
    /\ UNCHANGED <<now, nextId, lost, inserted, call, popup>>

NextSeq ==
    \/ Tick(MaxTicks, 1)
    \/ \E token \in Tokens : Upsert(token, MaxRequests)
    \/ Sweep

SpecSeq == Init /\ [][NextSeq]_vars

(***************************************************************************)
(* Group-cap specification: sequential upserts that fill the index.  The   *)
(* clock is fixed at the start, so that some credentials arrive expired;   *)
(* once the index is full the oldest group may receive further requests.   *)
(***************************************************************************)
CapToken(k) == Jwt(<<Hdr(1)>>, <<Pay(k)>>, <<Sig(1)>>)

InitGroupCap ==
    /\ store = <<>>
    /\ now \in {k * TickMs : k \in 0..MaxTicks}
    /\ nextId = 0
    /\ tasks = [s \in Slots |-> Idle]
    /\ lost = {}
    /\ inserted = <<>>
    /\ call = NoCall
    /\ effects = {}
    /\ popup = PopupClosed

UpsertNew == Upsert(CapToken(Len(inserted) + 1), MaxUpserts)

UpsertOldest ==
    /\ Len(GetStorage(store).tokenGroups) = MAX_TOKEN_GROUPS
    /\ Upsert(GetStorage(store).tokenGroups[MAX_TOKEN_GROUPS].raw, MaxUpserts)

NextGroupCap ==
    \/ UpsertNew
    \/ UpsertOldest

SpecGroupCap == InitGroupCap /\ [][NextGroupCap]_vars

(***************************************************************************)
(* Request-cap specification: request events with one credential.  Each    *)
(* event's load-modify-save runs as a whole, but around the cap an event   *)
(* may be overtaken by the event received after it, and the clock moves.   *)
(***************************************************************************)
\* The number of request records the store holds.
StoredCount == Cardinality(StoredIds(store))

AroundCap ==
    /\ StoredCount >= MAX_REQUESTS_PER_GROUP - 1
    /\ nextId < MAX_REQUESTS_PER_GROUP + CapWindow

ReceiveAppend(s) ==
    /\ FreeSlot(s)
    /\ s = 1 \/ AroundCap
    /\ nextId < MaxAppends
    /\ nextId' = nextId + 1
    /\ tasks' = [tasks EXCEPT ![s] = [Idle EXCEPT !.kind = "upsert", !.pc = "load", !.token = TokA,
                                                   !.req = <<RequestInfo(nextId + 1, now)>>]]
    /\ effects' = effects \cup {StorageGetCall}
    /\ UNCHANGED <<store, now, lost, inserted, call, popup>>

CompleteAppend(s) ==
    /\ tasks[s].kind = "upsert" /\ tasks[s].pc = "load"
    /\ tasks' = [tasks EXCEPT ![s] =
                    [UpsertLoaded(tasks[s].token, tasks[s].req[1], store, now) EXCEPT !.pc = "saved"]]
    /\ store' = SaveStorage(tasks'[s].storage[1])
    /\ effects' = effects \cup {StorageSetCall}
    /\ UNCHANGED <<now, nextId, lost, inserted, call, popup>>

TickAroundCap == AroundCap /\ Tick(MaxTicks, 1)

NextRequestCap ==
    \/ TickAroundCap
    \/ \E s \in Slots : ReceiveAppend(s)
    \/ \E s \in Slots : CompleteAppend(s)

SpecRequestCap == Init /\ [][NextRequestCap]_vars

(***************************************************************************)
(* Full-index specification: the calls interleave as in the main           *)
(* specification, from an index that earlier events have filled: 100       *)
(* groups, the newest of them with 50 requests, all observed at the epoch. *)
(* The further events and the sweeps come a day and a half later, past the *)
(* retention window.                                                       *)
(***************************************************************************)
\* The credential of the i-th group of the full index (the first is the newest).
FullIndexToken(i) == CapToken(MAX_TOKEN_GROUPS + 1 - i)

\* The request records of the events that filled the index: the j-th
\* request of the i-th group.
EarlierRequest(i, j) == RequestInfo(0 - ((i - 1) * MAX_REQUESTS_PER_GROUP + j), 0)

\* The storage object after those events: upserts of 100 identities and 49
\* further requests with the credential of the last of them.
FullIndex ==
    [tokenGroups |->
        [i \in 1..MAX_TOKEN_GROUPS |->
            [CreateTokenGroup(FullIndexToken(i), EarlierRequest(i, 1), 0)[1] EXCEPT
                !.requests = IF i = 1
                             THEN [j \in 1..MAX_REQUESTS_PER_GROUP |-> EarlierRequest(1, j)]
                             ELSE <<EarlierRequest(i, 1)>>]]]

\* The credentials of the further events: that of the newest group, and one
\* of a new identity.
FullIndexTokens == {FullIndexToken(1), FullIndexToken(0)}

InitFullIndex ==
    /\ store = SaveStorage(FullIndex)
    /\ now = RaceTickSteps * TickMs
    /\ nextId = 0
    /\ tasks = [s \in Slots |-> Idle]
    /\ lost = {}
    /\ inserted = <<>>
    /\ call = NoCall
    /\ effects = {StorageGetCall, StorageSetCall}
    /\ popup = PopupClosed

NextFullIndex ==
    \/ \E s \in Slots, token \in FullIndexTokens : HandleRequest(s, token)
    \/ \E s \in Slots : UpsertLoad(s)
    \/ \E s \in Slots : SweepLoad(s)
    \/ \E s \in Slots : Save(s)

SpecFullIndex == InitFullIndex /\ [][NextFullIndex]_vars

(***************************************************************************)
(* Fault specification: the calls interleave as in the main specification, *)
(* chrome.storage.local.get and .set may fail (chrome.runtime.lastError    *)
(* set, the callback called without a result), and the value found under   *)
(* STORAGE_KEY at startup may be one this code did not write.  A call that *)
(* returned leaves its kind and its error in its slot, pc = "returned".    *)
(***************************************************************************)
\* A stored value that is present but has no tokenGroups array.
MalformedRecord == << [maxTokenGroups |-> MAX_TOKEN_GROUPS, retentionHours |-> RETENTION_HOURS] >>

\* The value a previous run of the worker left: one group, one request.
SeededRecord == SaveStorage(StoreTokenData(GetStorage(<<>>), TokA, RequestInfo(0, 0), 0))

\* The outcomes of a chrome.storage.local call.
StorageOutcomes == {"ok", "error"}

\* The get callback of getStorage raises: `result` is undefined (the call
\* failed), or data.tokenGroups is (line 163).
GetCallbackThrows(stored, outcome) ==
    \/ outcome = "error"
    \/ stored # <<>> /\ "tokenGroups" \notin DOMAIN stored[1]

InitFaults ==
    /\ store \in {<<>>, SeededRecord, MalformedRecord}
    /\ now = 0
    /\ nextId = 0
    /\ tasks = [s \in Slots |-> Idle]
    /\ lost = {}
    /\ inserted = <<>>
    /\ call = NoCall
    /\ effects = {}
    /\ popup = PopupClosed

\* setInterval's callback, or the call at startup: cleanupOldData up to the
\* chrome.storage.local.get call of getStorage.
SweepBegin(s) ==
    /\ FreeSlot(s)
    /\ tasks' = [tasks EXCEPT ![s] = [Idle EXCEPT !.kind = "sweep", !.pc = "load"]]
    /\ effects' = effects \cup {StorageGetCall}
    /\ UNCHANGED <<store, now, nextId, lost, inserted, call, popup>>

\* The callback of chrome.storage.local.get and, when it resolves the
\* promise, the caller's code up to its saveStorage call.
GetCallback(s, outcome) ==
    /\ tasks[s].pc = "load"
    /\ tasks' = [tasks EXCEPT ![s] =
          IF GetCallbackThrows(store, outcome)
          THEN [tasks[s] EXCEPT !.pc = "hung",
                                !.err = IF outcome = "error" THEN "load" ELSE "parse"]
          ELSE IF tasks[s].kind = "upsert"
          THEN UpsertLoaded(tasks[s].token, tasks[s].req[1], store, now)
          ELSE SweepLoaded(store, now)]
    /\ effects' = effects \cup (IF GetCallbackThrows(store, outcome) THEN {} ELSE {StorageSetCall})
    /\ UNCHANGED <<store, now, nextId, lost, inserted, call, popup>>

\* The callback of chrome.storage.local.set: resolve(), and the caller
\* returns; when the call failed the stored value is the old one.
SetCallback(s, outcome) ==
    /\ tasks[s].pc = "save"
    /\ store' = IF outcome = "ok" THEN SaveStorage(tasks[s].storage[1]) ELSE store
    /\ tasks' = [tasks EXCEPT ![s] =
          [Idle EXCEPT !.kind = tasks[s].kind, !.pc = "returned",
                       !.err = IF outcome = "ok" THEN "none" ELSE "save"]]
    /\ UNCHANGED <<now, nextId, lost, inserted, call, effects, popup>>

NextFaults ==
    \/ Tick(MaxRaceTicks, RaceTickSteps)
    \/ \E s \in Slots : HandleRequest(s, TokB)
    \/ \E s \in Slots : SweepBegin(s)
    \/ \E s \in Slots, outcome \in StorageOutcomes : GetCallback(s, outcome)
    \/ \E s \in Slots, outcome \in StorageOutcomes : SetCallback(s, outcome)

SpecFaults == InitFaults /\ [][NextFaults]_vars

\* The browser delivers the callback of every storage call it was handed.
FairCallbacks ==
    \A s \in Slots :
        /\ WF_vars(\E outcome \in StorageOutcomes : GetCallback(s, outcome))
        /\ WF_vars(\E outcome \in StorageOutcomes : SetCallback(s, outcome))

SpecFaultsFair == SpecFaults /\ FairCallbacks

(***************************************************************************)
(* Load specification: a stored value whose timestamps may be unparseable  *)
(* is loaded by the worker's getStorage and by the popup's getStorage.     *)
(***************************************************************************)
\* A stored timestamp, as saved or replaced by text no Date parses.
DateVariants(stored) == {stored, UnparseableDate}

\* The stored values: one group of one request, as saveStorage left it,
\* with any of its timestamps unparseable.
LoadRecords ==
    LET Saved(token) == StoredGroup(CreateTokenGroup(token, RequestInfo(1, 0), 0)[1]) IN
    { << [tokenGroups |-> << [Saved(token) EXCEPT
                                 !.expiryDate = IF badExpiry THEN <<UnparseableDate>>
                                                ELSE Saved(token).expiryDate,
                                 !.firstSeen  = first,
                                 !.lastSeen   = last,
                                 !.requests   = << [Saved(token).requests[1] EXCEPT !.timestamp = stamp] >>] >>] >>
        : token \in {TokA, TokB},
          badExpiry \in BOOLEAN,
          first \in DateVariants(StoredDate(0)),
          last \in DateVariants(StoredDate(0)),
          stamp \in DateVariants(StoredDate(0)) }

InitLoad ==
    /\ store \in LoadRecords
    /\ now \in {k * TickMs : k \in 0..MaxTicks}
    /\ nextId = 1
    /\ tasks = [s \in Slots |-> Idle]
    /\ lost = {}
    /\ inserted = <<>>
    /\ call = NoCall
    /\ effects = {}
    /\ popup = PopupClosed

\* The worker's getStorage resolves.
BackgroundLoad ==
    /\ call' = [fn |-> "background.getStorage", args |-> <<store>>, result |-> <<GetStorage(store)>>]
    /\ effects' = effects \cup {StorageGetCall}
    /\ UNCHANGED <<store, now, nextId, tasks, lost, inserted, popup>>

\* The popup's getStorage resolves.
PopupLoad ==
    /\ call' = [fn |-> "popup.getStorage", args |-> <<store>>, result |-> <<PopupGetStorage(store, now)>>]
    /\ effects' = effects \cup {PopupStorageGetCall}
    /\ UNCHANGED <<store, now, nextId, tasks, lost, inserted, popup>>

NextLoad ==
    \/ BackgroundLoad
    \/ PopupLoad

SpecLoad == InitLoad /\ [][NextLoad]_vars

(***************************************************************************)
(* Cold-group specification: the store holds one group that receives no    *)
(* further request, any of its timestamps possibly unparseable; the clock  *)
(* advances and the timer of setupStorageCleanup keeps calling             *)
(* cleanupOldData, each call running to its return.                        *)
(***************************************************************************)
InitCold ==
    /\ store \in LoadRecords
    /\ now = 0
    /\ nextId = 1
    /\ tasks = [s \in Slots |-> Idle]
    /\ lost = {}
    /\ inserted = <<>>
    /\ call = NoCall
    /\ effects = {StorageGetCall, StorageSetCall}
    /\ popup = PopupClosed

NextCold ==
    \/ Tick(MaxTicks, 1)
    \/ Sweep

SpecCold == InitCold /\ [][NextCold]_vars

\* Time passes, and setInterval (lines 210-212) calls cleanupOldData again.
FairSweeps == WF_vars(Tick(MaxTicks, 1)) /\ WF_vars(Sweep)

SpecColdFair == SpecCold /\ FairSweeps

(***************************************************************************)
(* Expiry-cleanup specification: the worker of src/src/utils/jwt.ts, its   *)
(* calls run one at a time.  Its handleRequest and storeTokenData are      *)
(* those of background.ts; the clock starts at the epoch.                  *)
(***************************************************************************)
\* Credentials with exp: 0, exp one hour after the epoch, and without exp.
ExpiryTokens == {CapToken(0), CapToken(-1), CapToken(2)}

TickExpiry ==
    /\ now < MaxExpiryTicks * ExpiryTickMinutes * 60 * 1000
    /\ now' = now + ExpiryTickMinutes * 60 * 1000
    /\ UNCHANGED <<store, nextId, tasks, lost, inserted, call, effects, popup>>

\* cleanupOldData of src/src/utils/jwt.ts as a whole.
ReadmeSweep ==
    /\ tasks' = [tasks EXCEPT ![1] =
                    [SweepLoaded(store, now) EXCEPT
                        !.pc = "saved",
                        !.storage = <<ReadmeCleanupOldData(GetStorage(store), now)>>]]
    /\ store' = SaveStorage(tasks'[1].storage[1])
    /\ effects' = effects \cup {StorageGetCall, StorageSetCall}
    /\ UNCHANGED <<now, nextId, lost, inserted, call, popup>>

NextExpiryCleanup ==
    \/ TickExpiry
    \/ \E token \in ExpiryTokens : Upsert(token, MaxRequests)
    \/ ReadmeSweep

SpecExpiryCleanup == Init /\ [][NextExpiryCleanup]_vars

(***************************************************************************)
(* Codec specification: the functions of JWTUtils applied to credentials   *)
(* written from every combination of segments, at several instants.        *)
(***************************************************************************)
HeaderSegments == {<<>>, <<Hdr(1)>>, <<Hdr(2)>>, <<NonObject(1)>>, <<Bad>>}

PayloadSegments == {<<>>, <<Pay(0)>>, <<Pay(1)>>, <<Pay(2)>>, <<Pay(FarPastPayload)>>,
                    <<NonObject(1)>>, <<Bad>>}

SignatureSegments == {<<>>, <<Sig(1)>>, <<Sig(2)>>}

\* The bearer texts: three segments, or one, two or four.
CodecTokens ==
    {Jwt(h, p, s) : h \in HeaderSegments, p \in PayloadSegments, s \in SignatureSegments}
    \cup {TokHexOfA, <<Pay(1), Dot, Sig(1)>>, TokA \o <<Dot, Sig(2)>>}

\* The second credential of a comparison.
PairTokens ==
    {TokA, TokAOtherHeader, TokABadHeader, TokB, Jwt(<<Hdr(1)>>, <<Pay(1)>>, <<Sig(2)>>),
     Jwt(<<Hdr(1)>>, <<>>, <<Sig(1)>>), TokHexOfA}

InitCodec ==
    /\ store = <<>>
    /\ now \in {k * TickMs : k \in 0..MaxTicks}
    /\ nextId = 1
    /\ tasks = [s \in Slots |-> Idle]
    /\ lost = {}
    /\ inserted = <<>>
    /\ call \in {[NoCall EXCEPT !.args = <<c1, c2>>] : c1 \in CodecTokens, c2 \in PairTokens}
    /\ effects = {}
    /\ popup = PopupClosed

\* generateTokenId resolves, for each of the two credentials.
CallGenerateTokenId ==
    /\ call' = [call EXCEPT !.fn = "generateTokenId",
                            !.result = <<GenerateTokenId(call.args[1]), GenerateTokenId(call.args[2])>>]
    /\ UNCHANGED <<store, now, nextId, tasks, lost, inserted, effects, popup>>

\* parseJWT returns, for the first credential.
CallParseJWT ==
    /\ call' = [call EXCEPT !.fn = "parseJWT", !.result = <<ParseJWT(call.args[1])>>]
    /\ UNCHANGED <<store, now, nextId, tasks, lost, inserted, effects, popup>>

\* createTokenGroup resolves, for the first credential and a request record.
CallCreateTokenGroup ==
    /\ call' = [call EXCEPT !.fn = "createTokenGroup",
                            !.result = <<CreateTokenGroup(call.args[1], RequestInfo(nextId, now), now)>>]
    /\ UNCHANGED <<store, now, nextId, tasks, lost, inserted, effects, popup>>

\* isTokenExpired returns, for the payload parseJWT gave for the first credential.
CallIsTokenExpired ==
    /\ ParseJWT(call.args[1]) # <<>>
    /\ call' = [call EXCEPT !.fn = "isTokenExpired",
                            !.result = <<IsTokenExpired(ParseJWT(call.args[1])[1].payload, now)>>]
    /\ UNCHANGED <<store, now, nextId, tasks, lost, inserted, effects, popup>>

NextCodec ==
    \/ CallGenerateTokenId
    \/ CallParseJWT
    \/ CallCreateTokenGroup
    \/ CallIsTokenExpired

SpecCodec == InitCodec /\ [][NextCodec]_vars

(***************************************************************************)
(* Header specification: the request events carry their header lists; the  *)
(* calls interleave as in the main specification.  chrome.webRequest hands *)
(* over each header name once.                                             *)
(***************************************************************************)
Header(name, value) == [name |-> name, value |-> value]

\* The values of an Authorization header: schemes and separators around the
\* credential TokB; <<>> is the empty or absent value.
AuthValues ==
    {<<>>, <<Word("Bearer")>>, <<Word("Bearer"), Space>>, <<Word("Bearer"), Space, Tab>>}
    \cup {<<Word(w)>> \o sep \o TokB :
             w \in {"Bearer", "bearer", "BEARER", "Basic", "bearers"},
             sep \in {<<>>, <<Space>>, <<Tab>>, <<Space, Space>>}}
    \cup {<<Space, Word("Bearer"), Space>> \o TokB,
          <<Word("Bearer"), Space>> \o TokB \o <<Space>>,
          <<Word("Bearer"), Space>> \o TokA \o <<Space>> \o TokB}

AuthNames == {"Authorization", "authorization", "AUTHORIZATION", "x-authorization"}

OtherHeader == Header("cookie", <<Word("Bearer"), Space>> \o TokA)

\* The header lists of the request events.
EventHeaders ==
    {<<>>, <<OtherHeader>>}
    \cup {<<Header(name, value)>> : name \in AuthNames, value \in AuthValues}
    \cup {<<OtherHeader, Header("Authorization", value)>> : value \in AuthValues}

\* Lines 35-37: requestHeaders.find(...), <<header>> or <<>> (undefined).
FindAuthHeader(requestHeaders) ==
    LET hits == {i \in 1..Len(requestHeaders) :
                    ToLowerCase(requestHeaders[i].name) = "authorization"}
    IN IF hits = {} THEN <<>>
       ELSE << requestHeaders[CHOOSE i \in hits : \A j \in hits : i <= j] >>

\* Lines 35-42: the bearer credential of the event, <<token>> or <<>> (the
\* handler returns).
BearerOf(requestHeaders) ==
    LET authHeader == FindAuthHeader(requestHeaders) IN
    IF authHeader = <<>> THEN <<>>
    ELSE IF authHeader[1].value = <<>> THEN <<>>
    ELSE ExtractBearerToken(authHeader[1].value)

\* The listener of chrome.webRequest.onBeforeSendHeaders: handleRequest up
\* to its return or to the chrome.storage.local.get call of getStorage.
OnBeforeSendHeaders(s, requestHeaders) ==
    LET bearerToken == BearerOf(requestHeaders) IN
    /\ FreeSlot(s)
    /\ nextId < MaxRaceRequests
    /\ call' = [fn |-> "handleRequest", args |-> <<requestHeaders>>, result |-> bearerToken]
    /\ IF bearerToken = <<>>
       THEN UNCHANGED <<nextId, tasks, effects>>
       ELSE /\ nextId' = nextId + 1
            /\ effects' = effects \cup {StorageGetCall}
            /\ tasks' = [tasks EXCEPT ![s] =
                            [Idle EXCEPT !.kind = "upsert", !.pc = "load", !.token = bearerToken[1],
                                         !.req = <<RequestInfo(nextId + 1, now)>>]]
    /\ UNCHANGED <<store, now, lost, inserted, popup>>

NextHeaders ==
    \/ \E s \in Slots, requestHeaders \in EventHeaders : OnBeforeSendHeaders(s, requestHeaders)
    \/ \E s \in Slots : UpsertLoad(s)
    \/ \E s \in Slots : Save(s)

SpecHeaders == Init /\ [][NextHeaders]_vars

(***************************************************************************)
(* Popup specification: the worker's calls run one at a time, and between  *)
(* them the popup loads the stored value (at its opening, or by its        *)
(* refresh button).                                                        *)
(***************************************************************************)
\* A credential whose exp is before every instant a Date can hold.
TokFarPast == CapToken(FarPastPayload)

PopupTokens == {TokA, TokB, TokFarPast}

NextPopup ==
    \/ Tick(MaxTicks, 1)
    \/ \E token \in PopupTokens : Upsert(token, MaxRequests)
    \/ Sweep
    \/ PopupLoad

SpecPopup == Init /\ [][NextPopup]_vars

(***************************************************************************)
(* Popup-events specification: the popup loads and renders the stored      *)
(* value (at its opening and at each click on refresh), and its copy and   *)
(* toggle buttons are clicked, between calls of the worker.                *)
(***************************************************************************)
PopupEventTokens == {TokA, TokAOtherHeader, TokB}

\* loadTokens: getStorage resolves and renderTokens replaces the elements
\* (all collapsed); with no group the container is hidden.
LoadTokens ==
    /\ popup' = [popup EXCEPT !.tokens = RenderTokens(PopupGetStorage(store, now).tokenGroups),
                              !.expanded = {}]
    /\ effects' = effects \cup {PopupStorageGetCall}
    /\ UNCHANGED <<store, now, nextId, tasks, lost, inserted, call>>

\* A click on the copy button of the i-th element: copyToClipboard.
CopyToClipboard(i) ==
    /\ i \in 1..Len(popup.tokens)
    /\ popup' = [popup EXCEPT !.clipboard = <<ClipboardText(popup.tokens[i])>>]
    /\ effects' = effects \cup {ClipboardWriteCall}
    /\ UNCHANGED <<store, now, nextId, tasks, lost, inserted, call>>

\* A click on the toggle button or the header of the i-th element:
\* toggleRequests.
ToggleRequests(i) ==
    /\ i \in 1..Len(popup.tokens)
    /\ popup' = [popup EXCEPT !.expanded =
                    IF popup.tokens[i].tokenId \in popup.expanded
                    THEN popup.expanded \ {popup.tokens[i].tokenId}
                    ELSE popup.expanded \cup {popup.tokens[i].tokenId}]
    /\ UNCHANGED <<store, now, nextId, tasks, lost, inserted, call, effects>>

NextPopupEvents ==
    \/ Tick(MaxRaceTicks, 1)
    \/ \E token \in PopupEventTokens : Upsert(token, MaxRequests)
    \/ Sweep
    \/ LoadTokens
    \/ \E i \in 1..MAX_TOKEN_GROUPS : CopyToClipboard(i)
    \/ \E i \in 1..MAX_TOKEN_GROUPS : ToggleRequests(i)

SpecPopupEvents == Init /\ [][NextPopupEvents]_vars

(***************************************************************************)
(* Vocabulary of the properties                                            *)
(***************************************************************************)
\* The calls that have reached (or passed) their saveStorage call.
SavedOps == {tasks[s] : s \in {r \in Slots : tasks[r].pc \in {"save", "saved"}}}

UpsertOps == {o \in SavedOps : o.kind = "upsert"}

SweepOps == {o \in SavedOps : o.kind = "sweep"}

\* The groups a call loaded, and the groups it passed to saveStorage.
Before(o) == o.loaded[1].tokenGroups

After(o) == o.storage[1].tokenGroups

\* The groups of the persisted snapshot.
Persisted == GetStorage(store).tokenGroups

TokenIdsOf(groups) == [i \in 1..Len(groups) |-> groups[i].tokenId]

\* The positions of the groups of an identity.
GroupsOf(groups, tokenId) == {i \in 1..Len(groups) : groups[i].tokenId = tokenId}

\* A credential decodes: three segments, header and payload each the
\* base64url text of a JSON object.
Decodable(token) ==
    /\ Len(SplitDots(token)) = 3
    /\ \A i \in {1, 2} :
          /\ Len(SplitDots(token)[i]) = 1
          /\ SplitDots(token)[i][1].c \in {"hdr", "pay"}

\* The request-retention window.
WindowMs == RETENTION_HOURS * HourMs

\* A timestamp max over a non-empty list of request records.
MaxTimestamp(requests) ==
    CHOOSE t \in {requests[i].timestamp : i \in 1..Len(requests)} :
        \A i \in 1..Len(requests) : requests[i].timestamp <= t

(***************************************************************************)
(* C1: upsert of a decodable credential with a new identity               *)
(***************************************************************************)
\* The group an upsert must have created for the call o.
IsSeededGroup(group, o) ==
    /\ group.tokenId = GenerateTokenId(o.token)
    /\ group.raw = o.token
    /\ group.requests = o.req
    /\ group.firstSeen = o.req[1].timestamp
    /\ group.lastSeen = o.req[1].timestamp

NewIdentityOps ==
    {o \in UpsertOps : Decodable(o.token) /\ GroupsOf(Before(o), GenerateTokenId(o.token)) = {}}

\* C1 as stated: an upsert of a decodable credential whose identity is not in
\* the index creates exactly one group, at the front, seeded with the single
\* request record (firstSeen = lastSeen = its observedAt), and every group
\* that was present is still there, unchanged.
C1_NewGroupOthersUnchanged ==
    \A o \in NewIdentityOps :
        /\ Len(After(o)) = Len(Before(o)) + 1
        /\ IsSeededGroup(After(o)[1], o)
        /\ \A i \in 1..Len(Before(o)) : After(o)[i + 1] = Before(o)[i]

\* C1 as amended: the same, except that when the index already holds
\* MAX_TOKEN_GROUPS groups its last (oldest) group is dropped; the other
\* groups are unchanged and keep their order behind the new group.
C1_NewGroupAtFront ==
    \A o \in NewIdentityOps :
        LET kept == IF Len(Before(o)) < MAX_TOKEN_GROUPS THEN Len(Before(o))
                    ELSE MAX_TOKEN_GROUPS - 1
        IN /\ Len(After(o)) = kept + 1
           /\ IsSeededGroup(After(o)[1], o)
           /\ GroupsOf(After(o), GenerateTokenId(o.token)) = {1}
           /\ \A i \in 1..kept : After(o)[i + 1] = Before(o)[i]

\* A new identity has been upserted into a full index.
C1_Witness ==
    \E o \in NewIdentityOps :
        /\ Len(Before(o)) = MAX_TOKEN_GROUPS
        /\ o.pc = "saved"
        /\ Persisted = After(o)

(***************************************************************************)
(* C2: upsert of a credential whose identity is in the index               *)
(***************************************************************************)
ExistingIdentityOps ==
    {o \in UpsertOps : GroupsOf(Before(o), GenerateTokenId(o.token)) # {}}

\* C2: an upsert of a credential whose identity is in the index creates no
\* group; the record is appended to that group's requests (at most 50 kept),
\* the group's lastSeen becomes the record's observedAt, and its isExpired is
\* the expiry of the credential's payload at the current time.
C2_ExistingGroupUpdated ==
    \A o \in ExistingIdentityOps :
        LET i == CHOOSE j \in GroupsOf(Before(o), GenerateTokenId(o.token)) : TRUE IN
        /\ Len(After(o)) = Len(Before(o))
        /\ After(o)[i].tokenId = Before(o)[i].tokenId
        /\ Len(Before(o)[i].requests) < MAX_REQUESTS_PER_GROUP
              => After(o)[i].requests = Append(Before(o)[i].requests, o.req[1])
        /\ After(o)[i].lastSeen = o.req[1].timestamp
        /\ Decodable(o.token)
        /\ After(o)[i].isExpired =
              IsTokenExpired(DecodeSegment(SplitDots(o.token)[2])[1], o.at)

(***************************************************************************)
(* C3: the group-count cap                                                 *)
(***************************************************************************)
\* The last n entries of a sequence, newest first.
NewestFirst(seq, n) == [i \in 1..n |-> seq[Len(seq) + 1 - i]]

\* C3: after upserts of more than 100 distinct identities (sequential, no
\* sweep) the index holds exactly 100 groups, those of the 100 identities
\* inserted last, whatever their expiry and however recently a dropped group
\* received a request.
C3_HundredMostRecentlyInserted ==
    /\ Len(inserted) <= MAX_TOKEN_GROUPS
          => TokenIdsOf(Persisted) = NewestFirst(inserted, Len(inserted))
    /\ Len(inserted) > MAX_TOKEN_GROUPS
          => TokenIdsOf(Persisted) = NewestFirst(inserted, MAX_TOKEN_GROUPS)

\* More than 100 identities were inserted; the group dropped last had just
\* received a request and was not expired, and the index holds expired and
\* unexpired groups.
C3_Witness ==
    /\ Len(inserted) > MAX_TOKEN_GROUPS
    /\ \E o \in NewIdentityOps :
          /\ Len(Before(o)) = MAX_TOKEN_GROUPS
          /\ \E j \in 1..Len(Before(o)[MAX_TOKEN_GROUPS].requests) :
                Before(o)[MAX_TOKEN_GROUPS].requests[j].id = o.req[1].id - 1
          /\ GroupsOf(Persisted, Before(o)[MAX_TOKEN_GROUPS].tokenId) = {}
    /\ \E i, j \in 1..Len(Persisted) : Persisted[i].isExpired /\ ~Persisted[j].isExpired

(***************************************************************************)
(* C4: the per-group request cap                                           *)
(***************************************************************************)
\* C4: after an upsert no group holds more than 50 request records; when the
\* append takes the list above 50, exactly 50 records of it remain and none
\* of the discarded records is newer (by observedAt) than a record kept.
C4_FiftyNewestByTimestamp ==
    /\ \A i \in 1..Len(Persisted) : Len(Persisted[i].requests) <= MAX_REQUESTS_PER_GROUP
    /\ \A o \in ExistingIdentityOps :
          LET i == CHOOSE j \in GroupsOf(Before(o), GenerateTokenId(o.token)) : TRUE
              appended == Append(Before(o)[i].requests, o.req[1])
              kept == After(o)[i].requests
              keptAt == {k \in 1..Len(appended) : \E j \in 1..Len(kept) : kept[j] = appended[k]}
          IN /\ Len(kept) <= MAX_REQUESTS_PER_GROUP
             /\ Len(appended) <= MAX_REQUESTS_PER_GROUP => kept = appended
             /\ Len(appended) > MAX_REQUESTS_PER_GROUP =>
                   /\ Len(kept) = MAX_REQUESTS_PER_GROUP
                   /\ Cardinality(keptAt) = MAX_REQUESTS_PER_GROUP
                   /\ \A d \in (1..Len(appended)) \ keptAt : \A k \in keptAt :
                         appended[d].timestamp <= appended[k].timestamp

\* Sixty requests were appended to one group and 50 remain; the last append
\* discarded a record that is older than the first record of the list.
C4_Witness ==
    /\ nextId = MaxAppends
    /\ Len(Persisted) = 1 /\ Len(Persisted[1].requests) = MAX_REQUESTS_PER_GROUP
    /\ \E o \in ExistingIdentityOps :
          /\ o.pc = "saved" /\ Persisted = After(o)
          /\ Len(Before(o)[1].requests) = MAX_REQUESTS_PER_GROUP
          /\ \E d \in 1..Len(Before(o)[1].requests) :
                /\ \A j \in 1..Len(After(o)[1].requests) :
                      After(o)[1].requests[j] # Before(o)[1].requests[d]
                /\ Before(o)[1].requests[d].timestamp < Before(o)[1].requests[1].timestamp

(***************************************************************************)
(* C5, C6: the sweep                                                       *)
(***************************************************************************)
\* The request records of a group that are younger than the window at time t.
Surviving(group, t) == SelectSeq(group.requests, LAMBDA req : t - req.timestamp < WindowMs)

\* The group has gone cold at time t: nothing survives and its lastSeen is
\* older than the window.
Cold(group, t) == Surviving(group, t) = <<>> /\ t - group.lastSeen > WindowMs

\* payload.exp is a number whose instant is before t.
ExpiredAt(group, t) == group.payload.exp # <<>> /\ group.payload.exp[1] * 1000 < t

C7_UndecodableDropped ==
    \A o \in UpsertOps : ~Decodable(o.token) => After(o) = Before(o)

(***************************************************************************)
(* C8, C9: invariants of the persisted snapshot                            *)
(***************************************************************************)
\* C8: the tokenIds of the groups of every persisted snapshot are pairwise
\* distinct, under every interleaving of upserts and sweeps.
C8_IdentitiesUnique ==
    \A i, j \in 1..Len(Persisted) : Persisted[i].tokenId = Persisted[j].tokenId => i = j

\* Two requests of one identity were upserted and the snapshot holds one
\* group with both.
C8_Witness ==
    /\ Len(Persisted) = 1
    /\ Len(Persisted[1].requests) = 2
    /\ \A s \in Slots : ~Busy(s)

\* C9: in every persisted snapshot the lastSeen of a group with requests is
\* the greatest observedAt of its request records.
C9_LastSeenIsMaxObservedAt ==
    \A i \in 1..Len(Persisted) :
        Persisted[i].requests # <<>>
            => Persisted[i].lastSeen = MaxTimestamp(Persisted[i].requests)

(***************************************************************************)
(* C10: lost updates                                                       *)
(***************************************************************************)
\* C10: nothing excludes a call's load-modify-save from another's: a call that
\* returns from saveStorage has replaced the whole stored value by its own
\* snapshot, whatever was saved since it loaded.
C10_LaterSaveOverwrites ==
    [][\A s \in Slots :
          tasks[s].pc = "save" /\ tasks'[s].pc # "save"
              => store' = SaveStorage(tasks[s].storage[1])]_vars

\* Both calls have returned without error, and a request record that one of
\* them persisted is gone although the other never loaded it.
C10_Witness ==
    /\ lost # {}
    /\ \A s \in Slots : ~Busy(s)
    /\ nextId = MaxRaceRequests

(***************************************************************************)
(* C11: no lost update when the load-modify-save cycles are serialised     *)
(***************************************************************************)
\* The positions <<group, request>> of the request record `id` in `groups`.
PositionsOf(groups, id) ==
    {p \in UNION {{<<i, j>> : j \in 1..Len(groups[i].requests)} : i \in 1..Len(groups)} :
        groups[p[1]].requests[p[2]].id = id}

\* The call o removed the record at position p of the snapshot it loaded by
\* one of the three rules: a sweep's age pruning (eviction removes a group
\* none of whose records survives the pruning), the per-group cap of 50, or
\* the group-count cap of 100.
RemovedByRule(o, p) ==
    \/ /\ o.kind = "sweep"
       /\ o.at - Before(o)[p[1]].requests[p[2]].timestamp >= WindowMs
    \/ /\ o.kind = "upsert"
       /\ Before(o)[p[1]].tokenId = GenerateTokenId(o.token)
       /\ Len(Before(o)[p[1]].requests) >= MAX_REQUESTS_PER_GROUP
    \/ /\ o.kind = "upsert"
       /\ GroupsOf(Before(o), GenerateTokenId(o.token)) = {}
       /\ Len(Before(o)) >= MAX_TOKEN_GROUPS
       /\ p[1] = Len(Before(o))

\* The call o, which ran as one atomic load-modify-save, lost nothing.
NothingLostBy(o) ==
    /\ Before(o) = Persisted
    /\ \A id \in StoredIds(store) \ StoredIds(store') :
          \A p \in PositionsOf(Before(o), id) : RemovedByRule(o, p)
    /\ (o.kind = "upsert" /\ Decodable(o.token)) =>
          \/ o.req[1].id \in StoredIds(store')
          \/ \E i \in GroupsOf(Before(o), GenerateTokenId(o.token)) :
                Len(Before(o)[i].requests) >= MAX_REQUESTS_PER_GROUP

\* C11: when every load-modify-save cycle runs as one atomic unit, the
\* stored value changes only by a completed call, the request record of a
\* completed upsert of a decodable credential is persisted, and a persisted
\* record leaves the snapshot only by the per-group cap of 50, the
\* group-count cap of 100 or a sweep's age pruning / eviction.
C11_SerialisedLosesNothing ==
    [][/\ store' # store =>
             \E s \in Slots : tasks'[s] # tasks[s] /\ tasks'[s].pc = "saved"
       /\ \A s \in Slots :
             (tasks'[s] # tasks[s] /\ tasks'[s].pc = "saved") =>
                 /\ store' = SaveStorage(tasks'[s].storage[1])
                 /\ NothingLostBy(tasks'[s])]_vars

\* Every request event was upserted, a sweep ran after the last of them
\* and the snapshot still holds all their records, in more than one group.
C11_Witness ==
    /\ nextId = MaxRequests
    /\ tasks[1].kind = "sweep" /\ tasks[1].pc = "saved"
    /\ Cardinality(StoredIds(store)) = MaxRequests
    /\ Len(Persisted) > 1
    /\ now > 0

(***************************************************************************)
(* C12, C13: storage failures                                              *)
(***************************************************************************)
\* The call of slot s meets a failure in this step: its get callback raises
\* or its set call fails.
FailsNow(s) == tasks[s].err = "none" /\ tasks'[s].err # "none"

\* C12: when loading, parsing or saving the snapshot fails during a sweep,
\* the sweep returns (no error reaches its caller) and the stored value is
\* the one the sweep found.
C12_FailedSweepIsNoOp ==
    [][\A s \in Slots :
          (tasks[s].kind = "sweep" /\ FailsNow(s))
              => tasks'[s].pc = "returned" /\ store' = store]_vars

\* C13: every upsert and every sweep that begins eventually returns.
C13_EveryCallReturns ==
    \A s \in Slots : (tasks[s].pc = "load") ~> (tasks[s].pc = "returned")

(***************************************************************************)
(* C14: loading unparseable timestamps                                     *)
(***************************************************************************)
\* The stored timestamp is one no Date parses.
Unparseable(stored) == "iso" \notin DOMAIN stored

\* The group `loaded` is a defensive load, at time t, of the stored group:
\* every instant is valid, an unparseable expiry is absent and every other
\* unparseable timestamp is the current instant.
DefensivelyLoaded(loaded, stored, t) ==
    /\ loaded.expiryDate # <<>> => ~IsNaN(loaded.expiryDate[1])
    /\ (stored.expiryDate # <<>> /\ Unparseable(stored.expiryDate[1])) => loaded.expiryDate = <<>>
    /\ ~IsNaN(loaded.firstSeen) /\ ~IsNaN(loaded.lastSeen)
    /\ Unparseable(stored.firstSeen) => loaded.firstSeen = t
    /\ Unparseable(stored.lastSeen) => loaded.lastSeen = t
    /\ Len(loaded.requests) = Len(stored.requests)
    /\ \A j \in 1..Len(stored.requests) :
          /\ ~IsNaN(loaded.requests[j].timestamp)
          /\ Unparseable(stored.requests[j].timestamp) => loaded.requests[j].timestamp = t

\* C14: the load of the worker (used by upsert and sweep) and the load of
\* the popup both return, and what they return is a defensive load.
C14_LoadsAreDefensive ==
    call.fn \in {"background.getStorage", "popup.getStorage"} =>
        /\ Len(call.result[1].tokenGroups) = Len(call.args[1][1].tokenGroups)
        /\ \A i \in 1..Len(call.result[1].tokenGroups) :
              DefensivelyLoaded(call.result[1].tokenGroups[i], call.args[1][1].tokenGroups[i], now)

(***************************************************************************)
(* C15: the cleanup the README documents                                   *)
(***************************************************************************)
\* The group's payload has a numeric exp whose instant is more than `ms`
\* before t.
ExpiredBy(group, t, ms) ==
    group.payload.exp # <<>> /\ t - group.payload.exp[1] * 1000 > ms

\* C15: a run of the cleanup removes every request record older than 2
\* hours and every group whose token expired more than 1 hour before the
\* run, whatever the numeric value of exp; it keeps the groups whose token
\* has no expiry, has not expired or expired less than 1 hour before.
C15_ReadmeCleanup ==
    \A o \in SweepOps :
        /\ \A i \in 1..Len(After(o)) : \A j \in 1..Len(After(o)[i].requests) :
              o.at - After(o)[i].requests[j].timestamp <= README_RETENTION_HOURS * HourMs
        /\ \A i \in 1..Len(Before(o)) :
              /\ ExpiredBy(Before(o)[i], o.at, HourMs)
                    => GroupsOf(After(o), Before(o)[i].tokenId) = {}
              /\ ~ExpiredBy(Before(o)[i], o.at, HourMs - 1)
                    => \E k \in GroupsOf(After(o), Before(o)[i].tokenId) :
                          \A j \in 1..Len(Before(o)[i].requests) :
                              o.at - Before(o)[i].requests[j].timestamp < README_RETENTION_HOURS * HourMs
                                  => \E m \in 1..Len(After(o)[k].requests) :
                                        After(o)[k].requests[m] = Before(o)[i].requests[j]

(***************************************************************************)
(* C16: identity stability                                                 *)
(***************************************************************************)
\* The text has exactly three segments.
ThreeSegments(token) == Len(SplitDots(token)) = 3

\* C16: two credentials (three segments each) have the same identity if and
\* only if their payload segments are identical and their signature
\* segments are identical; the header segment plays no part.
C16_IdentityIffPayloadAndSignature ==
    (call.fn = "generateTokenId" /\ ThreeSegments(call.args[1]) /\ ThreeSegments(call.args[2])) =>
        (call.result[1] = call.result[2]
            <=> /\ SplitDots(call.args[1])[2] = SplitDots(call.args[2])[2]
                /\ SplitDots(call.args[1])[3] = SplitDots(call.args[2])[3])

\* Two credentials that differ in the header segment only got one identity.
C16_Witness ==
    /\ call.fn = "generateTokenId"
    /\ ThreeSegments(call.args[1]) /\ ThreeSegments(call.args[2])
    /\ SplitDots(call.args[1])[1] # SplitDots(call.args[2])[1]
    /\ call.result[1] = call.result[2]

(***************************************************************************)
(* C17: expiry                                                             *)
(***************************************************************************)
\* The payload isTokenExpired was called with.
CalledPayload == ParseJWT(call.args[1])[1].payload

\* payload.exp is a number whose instant is a time value a Date can hold.
HasExpiryInstant(payload) == payload.exp # <<>> /\ ~IsNaN(TimeClip(payload.exp[1] * 1000))

\* C17 as stated: isExpired(payload, now) is false when the payload has no
\* numeric exp, and otherwise true exactly when the instant exp seconds
\* after the epoch is strictly before now; the call changes no state.
C17_ExpiredIffExpBeforeNow ==
    [][(call'.fn = "isTokenExpired" /\ call' # call) =>
          /\ call'.result[1] = (CalledPayload.exp # <<>> /\ CalledPayload.exp[1] * 1000 < now)
          /\ UNCHANGED <<store, now, nextId, tasks, lost, inserted, effects, popup>>]_vars

\* C17 as amended: the same, except that an exp whose instant is outside the
\* range of a Date counts as no expiry (the result is false).
C17_ExpiredIffInstantBeforeNow ==
    [][(call'.fn = "isTokenExpired" /\ call' # call) =>
          /\ call'.result[1] = (HasExpiryInstant(CalledPayload) /\ CalledPayload.exp[1] * 1000 < now)
          /\ UNCHANGED <<store, now, nextId, tasks, lost, inserted, effects, popup>>]_vars

\* isTokenExpired answered false for a payload whose exp instant is the
\* current instant.
C17_Witness ==
    /\ call.fn = "isTokenExpired"
    /\ HasExpiryInstant(CalledPayload)
    /\ CalledPayload.exp[1] * 1000 = now
    /\ now > 0
    /\ call.result = <<FALSE>>

(***************************************************************************)
(* C18, C19: what parseJWT rejects                                         *)
(***************************************************************************)
\* parseJWT, or createTokenGroup through it, accepted the first credential.
Accepted ==
    /\ call.fn \in {"parseJWT", "createTokenGroup"}
    /\ call.result[1] # <<>>

\* C18: parseJWT fails, and createTokenGroup creates no group, unless the
\* credential splits on "." into exactly three segments none of which is
\* empty.
C18_RejectsUnlessThreeNonEmpty ==
    Accepted =>
        /\ Len(SplitDots(call.args[1])) = 3
        /\ \A i \in 1..3 : SplitDots(call.args[1])[i] # <<>>

\* C19: parseJWT fails unless the header segment and the payload segment
\* are each base64url text of a JSON object; the signature segment is
\* returned verbatim.
C19_RejectsUnlessObjects ==
    Accepted =>
        /\ Decodable(call.args[1])
        /\ call.result[1][1].signature = SplitDots(call.args[1])[3]

(***************************************************************************)
(* C20: a request record belongs to one group and does not change          *)
(***************************************************************************)
\* The snapshots that exist: the persisted one and those the calls in
\* flight have loaded or are about to save.
Snapshots ==
    {Persisted}
    \cup {tasks[s].loaded[1].tokenGroups : s \in {r \in Slots : tasks[r].loaded # <<>>}}
    \cup {tasks[s].storage[1].tokenGroups : s \in {r \in Slots : tasks[r].storage # <<>>}}

\* The request records of a snapshot, each with the identity of the group
\* that holds it.
EntriesOf(groups) ==
    UNION {{<<groups[i].requests[j], groups[i].tokenId>> : j \in 1..Len(groups[i].requests)}
           : i \in 1..Len(groups)}

\* C20: in every snapshot a request record (by id) is in at most one group's
\* list and at most once in it; all its copies are the record handleRequest
\* created, in the group of the identity of the credential it came with.
C20_RecordInOneGroupUnchanged ==
    LET snapshots == Snapshots
        entries == UNION {EntriesOf(groups) : groups \in snapshots}
    IN /\ \A groups \in snapshots : \A id \in RequestIds([tokenGroups |-> groups]) :
             Cardinality(PositionsOf(groups, id)) = 1
       /\ \A e1, e2 \in entries : e1[1].id = e2[1].id => e1 = e2
       /\ \A s \in Slots : \A e \in entries :
             (tasks[s].req # <<>> /\ tasks[s].req[1].id = e[1].id) =>
                 /\ e[1] = tasks[s].req[1]
                 /\ e[2] = GenerateTokenId(tasks[s].token)

\* The snapshot holds the records of all request events, in two groups, and
\* a sweep in flight holds a copy of each.
C20_Witness ==
    /\ Cardinality(StoredIds(store)) = MaxRaceRequests
    /\ Len(Persisted) = 2
    /\ \E s \in Slots :
          /\ tasks[s].kind = "sweep" /\ tasks[s].pc = "save"
          /\ RequestIds(tasks[s].storage[1]) = StoredIds(store)

(***************************************************************************)
(* C21: the order of the groups                                            *)
(***************************************************************************)
\* The rank of the latest creation of a group of the identity (0: never).
LastInsertion(tokenId) ==
    LET at == {k \in 1..Len(inserted) : inserted[k] = tokenId} IN
    IF at = {} THEN 0 ELSE CHOOSE k \in at : \A m \in at : m <= k

\* The identities of `before` that `after` still holds, in the order of `before`.
RemainingOf(before, after) ==
    TokenIdsOf(SelectSeq(before, LAMBDA group : GroupsOf(after, group.tokenId) # {}))

\* The call o left the groups it loaded in their relative order.
KeepsOrder(o) ==
    IF o \in NewIdentityOps
    THEN /\ After(o)[1].tokenId = GenerateTokenId(o.token)
         /\ TokenIdsOf(SubSeq(After(o), 2, Len(After(o)))) = RemainingOf(Before(o), After(o))
    ELSE TokenIdsOf(After(o)) = RemainingOf(Before(o), After(o))

\* C21: in every persisted snapshot a group created later stands before
\* every group created earlier; an upsert on an existing group and a sweep
\* leave the groups they keep in their relative order.
C21_NewestCreatedFirst ==
    /\ \A i \in 1..Len(Persisted) : LastInsertion(Persisted[i].tokenId) > 0
    /\ \A i, j \in 1..Len(Persisted) :
          i < j => LastInsertion(Persisted[i].tokenId) > LastInsertion(Persisted[j].tokenId)
    /\ \A o \in SavedOps : KeepsOrder(o)

\* The older of two groups has just received a request (an upsert on an
\* existing group): it is the more recently used one and still stands last,
\* and a sweep had run over both groups before.
C21_Witness ==
    /\ Len(Persisted) = 2
    /\ Persisted[2].lastSeen > Persisted[1].lastSeen
    /\ tasks[1] \in ExistingIdentityOps /\ tasks[1].pc = "saved"
    /\ Persisted = After(tasks[1])
    /\ Len(Persisted[2].requests) = 1
    /\ Persisted[2].firstSeen < Persisted[2].lastSeen

(***************************************************************************)
(* C22: the sweep recomputes isExpired                                     *)
(***************************************************************************)
\* C22 as stated: in the snapshot a completed sweep persisted, every
\* group's isExpired is true if and only if its payload has a numeric exp
\* whose instant is before the sweep's current time.
C22_SweptExpiredIffExpBeforeNow ==
    \A o \in SweepOps :
        /\ \A i \in 1..Len(After(o)) : After(o)[i].isExpired = ExpiredAt(After(o)[i], o.at)
        /\ o.pc = "saved" => Persisted = After(o)

\* C22 as amended: the same, except that an exp whose instant is outside
\* the range of a Date counts as no expiry (isExpired is false).
C22_SweptExpiredIffInstantBeforeNow ==
    \A o \in SweepOps :
        /\ \A i \in 1..Len(After(o)) :
              After(o)[i].isExpired =
                  (HasExpiryInstant(After(o)[i].payload) /\ ExpiredAt(After(o)[i], o.at))
        /\ o.pc = "saved" => Persisted = After(o)

\* A sweep persisted a group that it found cached as not expired and left
\* expired, a group without exp and a group whose exp is out of range.
C22_Witness ==
    \E o \in SweepOps :
        /\ o.pc = "saved" /\ Persisted = After(o)
        /\ \E i \in 1..Len(After(o)), j \in 1..Len(Before(o)) :
              /\ Before(o)[j].tokenId = After(o)[i].tokenId
              /\ ~Before(o)[j].isExpired /\ After(o)[i].isExpired
        /\ \E i \in 1..Len(After(o)) : After(o)[i].payload.exp = <<>>
        /\ \E i \in 1..Len(After(o)) :
              After(o)[i].payload.exp # <<>> /\ ~HasExpiryInstant(After(o)[i].payload)

(***************************************************************************)
(* C23: which request events reach the upsert                              *)
(***************************************************************************)
\* The remainders of a header value after "Bearer" (in any case) and one or
\* more whitespace characters: every way to read the value as the pattern.
BearerRemainders(value) ==
    {SubSeq(value, k + 2, Len(value)) :
        k \in {m \in 1..(Len(value) - 2) :
                  /\ value[1].c = "word"
                  /\ value[1].text \in {"Bearer", "bearer", "BEARER"}
                  /\ \A i \in 2..(m + 1) : value[i].c = "ws"}}

\* The credentials of the authorization headers of a header list.
BearerCredentials(requestHeaders) ==
    UNION {BearerRemainders(requestHeaders[i].value) :
             i \in {j \in 1..Len(requestHeaders) :
                       requestHeaders[j].name \in {"Authorization", "authorization", "AUTHORIZATION"}}}

\* The calls that begin their load in this step.
Beginning == {s \in Slots : tasks[s].pc # "load" /\ tasks'[s].pc = "load"}

\* C23: a request event begins an upsert (the load of storeTokenData) if
\* and only if one of its headers is named authorization, in any case, and
\* its value reads as "Bearer", in any case, one or more whitespace
\* characters and a non-empty remainder; the upsert's credential is that
\* remainder and its record is the event's.  Every other event changes
\* neither the stored value nor any call.
C23_BearerEventsReachUpsert ==
    [][(call' # call /\ call'.fn = "handleRequest") =>
          LET credentials == BearerCredentials(call'.args[1]) IN
          /\ store' = store
          /\ credentials = {} => UNCHANGED <<tasks, nextId>>
          /\ credentials # {} =>
                /\ Cardinality(Beginning) = 1
                /\ \A s \in Beginning :
                      /\ tasks'[s].kind = "upsert"
                      /\ tasks'[s].token \in credentials
                      /\ tasks'[s].req = <<RequestInfo(nextId + 1, now)>>
                /\ \A s \in Slots \ Beginning : tasks'[s] = tasks[s]]_vars

\* An event whose header AUTHORIZATION held "bearer", two whitespace
\* characters and a credential has been upserted, with exactly the
\* credential, and its upsert has returned.
C23_Witness ==
    /\ call.fn = "handleRequest"
    /\ Len(call.args[1]) = 1
    /\ call.args[1][1].name = "AUTHORIZATION"
    /\ call.args[1][1].value = <<Word("bearer"), Space, Space>> \o TokB
    /\ call.result = <<TokB>>
    /\ nextId = 1
    /\ \A s \in Slots : ~Busy(s)
    /\ Len(Persisted) = 1 /\ Persisted[1].raw = TokB

(***************************************************************************)
(* C24: the popup only reads                                               *)
(***************************************************************************)
\* The groups the popup shows are those of the stored value: the same
\* identities, each with the raw credential text the store holds for it.
ShowsStoredCredentials(tokens, stored) ==
    /\ Len(tokens) = Len(GetStorage(stored).tokenGroups)
    /\ \A i \in 1..Len(tokens) :
          \E j \in 1..Len(stored[1].tokenGroups) :
              /\ stored[1].tokenGroups[j].tokenId = tokens[i].tokenId
              /\ stored[1].tokenGroups[j].raw = tokens[i].raw

\* C24: no operation of the popup (load and render, refresh, copy,
\* expand/collapse) changes the stored value or any call of the worker, and
\* none calls chrome.storage.local.set; what a load shows are the stored
\* groups with their raw credential texts, and a copy puts the raw text of
\* the group clicked on the clipboard.
C24_PopupOnlyReads ==
    [][popup' # popup =>
          /\ UNCHANGED <<store, now, nextId, tasks, lost, inserted>>
          /\ StorageSetCall \notin effects' \ effects
          /\ popup'.tokens # popup.tokens => ShowsStoredCredentials(popup'.tokens, store)
          /\ popup'.clipboard # popup.clipboard =>
                \E i \in 1..Len(popup.tokens) : popup'.clipboard = <<popup.tokens[i].raw>>]_vars

\* The popup shows the two stored groups, the more recently used one first
\* (not the order of the store), one is expanded, and the raw text of the
\* second was copied; the stored value is the one the worker saved last.
C24_Witness ==
    /\ Len(popup.tokens) = 2
    /\ TokenIdsOf(popup.tokens) # TokenIdsOf(Persisted)
    /\ ShowsStoredCredentials(popup.tokens, store)
    /\ popup.expanded # {}
    /\ popup.clipboard = <<popup.tokens[2].raw>>
    /\ tasks[1].pc = "saved" /\ store = SaveStorage(tasks[1].storage[1])

C26_SnapshotBounded ==
    /\ Len(Persisted) <= MAX_TOKEN_GROUPS
    /\ \A i \in 1..Len(Persisted) : Len(Persisted[i].requests) <= MAX_REQUESTS_PER_GROUP

\* Into a full index (100 groups, one of them with 50 requests) a request
\* of the full group and a request of a new identity were upserted; the
\* snapshot has 100 groups, the new one in front, and the group that
\* received the request has 50 records, the new record among them.
C26_Witness ==
    /\ \A s \in Slots : ~Busy(s)
    /\ Len(Persisted) = MAX_TOKEN_GROUPS
    /\ Persisted[1].tokenId = GenerateTokenId(FullIndexToken(0))
    /\ Persisted[2].tokenId = GenerateTokenId(FullIndexToken(1))
    /\ Len(Persisted[2].requests) = MAX_REQUESTS_PER_GROUP
    /\ \E j \in 1..MAX_REQUESTS_PER_GROUP : Persisted[2].requests[j].id > 0

(***************************************************************************)
(* C27: a cold group is eventually removed                                 *)
(***************************************************************************)
\* C27: a group that receives no further request is eventually absent from
\* the persisted snapshot, as time advances and sweeps keep completing,
\* whatever its stored timestamps are (unparseable ones included) and
\* whether or not its credential has an exp.
C27_ColdGroupEventuallyRemoved == (Persisted # <<>>) ~> (Persisted = <<>>)

\* The same for the groups whose stored lastSeen parses: the time the clock
\* reaches is enough for the sweeps to remove such a group, whatever its
\* other timestamps.
ColdGroupOfKnownAgeEventuallyRemoved ==
    (Persisted # <<>> /\ ~IsNaN(Persisted[1].lastSeen)) ~> (Persisted = <<>>)


(***************************************************************************)
(* C28: the places that compute expiry                                     *)
(***************************************************************************)
\* Every group of `groups` carries the codec's isTokenExpired of its own
\* payload at time t.
CodecExpiry(groups, t) ==
    \A i \in 1..Len(groups) : groups[i].isExpired = IsTokenExpired(groups[i].payload, t)

\* The isExpired values the popup's getStorage has just computed are the
\* codec's.
RenderAgrees ==
    (call'.fn = "popup.getStorage" /\ call' # call)
        => CodecExpiry(call'.result[1].tokenGroups, now)

\* The group an upsert wrote to carries the codec's value at the upsert's
\* time.
WriteAgrees ==
    \A o \in UpsertOps' :
        \A i \in GroupsOf(After(o), GenerateTokenId(o.token)) :
            After(o)[i].isExpired = IsTokenExpired(After(o)[i].payload, o.at)

\* Every group a sweep kept carries the codec's value at the sweep's time.
SweepAgrees == \A o \in SweepOps' : CodecExpiry(After(o), o.at)

\* C28: the isExpired computed on render (the popup's getStorage), on write
\* (upsert) and on sweep each equal the codec's isTokenExpired of the
\* group's payload at the current time.
C28_ExpiryComputationsAgree == [][RenderAgrees /\ WriteAgrees /\ SweepAgrees]_vars


(***************************************************************************)
(* C29: what an upsert on an existing group leaves alone                   *)
(***************************************************************************)
\* The fields of a group other than the given ones are those of `before`.
SameExcept(after, before, fields) ==
    /\ DOMAIN after = DOMAIN before
    /\ \A f \in DOMAIN before \ fields : after[f] = before[f]

\* C29: an upsert of a credential whose identity is in the index leaves the
\* number and the order of the groups as they were, leaves every other
\* group as it was, and changes of the group it found nothing but requests,
\* lastSeen and isExpired: tokenId, raw, header, payload, signature,
\* expiryDate and firstSeen are as before, whatever the header of the new
\* credential.  (Before and after: the snapshot the call loaded and the
\* snapshot it passes to saveStorage.)
C29_ExistingUpsertFrame ==
    \A o \in ExistingIdentityOps :
        LET i == ExistingGroupIndex(o.loaded[1], o.token) IN
        /\ Len(After(o)) = Len(Before(o))
        /\ \A j \in 1..Len(Before(o)) : j # i => After(o)[j] = Before(o)[j]
        /\ SameExcept(After(o)[i], Before(o)[i], {"requests", "lastSeen", "isExpired"})

\* An upsert found its group at the second position and persisted it with a
\* new lastSeen, a new isExpired and one more request; the credential it
\* saw decodes and differs from the stored raw text by its header.
C29_Witness ==
    \E o \in ExistingIdentityOps :
        LET i == ExistingGroupIndex(o.loaded[1], o.token) IN
        /\ o.pc = "saved" /\ Persisted = After(o)
        /\ i = 2
        /\ Decodable(o.token) /\ o.token # Before(o)[i].raw
        /\ ParseJWT(o.token)[1].header # Before(o)[i].header
        /\ After(o)[i].lastSeen # Before(o)[i].lastSeen
        /\ After(o)[i].isExpired # Before(o)[i].isExpired
        /\ Len(After(o)[i].requests) = Len(Before(o)[i].requests) + 1


(***************************************************************************)
(* C30: a sweep only removes                                               *)
(***************************************************************************)
\* The k-th smallest member of a set of positions.
Nth(keep, k) == CHOOSE n \in keep : Cardinality({m \in keep : m <= n}) = k

\* The entries of seq at the positions `keep`, in the order of seq.
Picked(seq, keep) == [k \in 1..Cardinality(keep) |-> seq[Nth(keep, k)]]

IsSubsequence(a, b) == \E keep \in SUBSET (1..Len(b)) : a = Picked(b, keep)

\* C30: the groups a sweep passes to saveStorage are groups it loaded, in
\* the order it loaded them; each of them holds a subsequence of the
\* requests it held before, and its tokenId, raw, header, payload,
\* signature, expiryDate, firstSeen and lastSeen (every field other than
\* isExpired and requests) are as before.
C30_SweepOnlyRemoves ==
    \A o \in SweepOps :
        \E keep \in SUBSET (1..Len(Before(o))) :
            /\ Cardinality(keep) = Len(After(o))
            /\ \A i \in 1..Len(After(o)) :
                  /\ SameExcept(After(o)[i], Picked(Before(o), keep)[i], {"isExpired", "requests"})
                  /\ IsSubsequence(After(o)[i].requests, Picked(Before(o), keep)[i].requests)

\* A sweep persisted fewer groups than it loaded; a group it kept lost
\* some of its requests but not all, and a group it kept got another
\* isExpired.
C30_Witness ==
    \E o \in SweepOps :
        /\ o.pc = "saved" /\ Persisted = After(o)
        /\ 0 < Len(After(o)) /\ Len(After(o)) < Len(Before(o))
        /\ \E i \in 1..Len(After(o)), j \in 1..Len(Before(o)) :
              /\ After(o)[i].tokenId = Before(o)[j].tokenId
              /\ 0 < Len(After(o)[i].requests)
              /\ Len(After(o)[i].requests) < Len(Before(o)[j].requests)
        /\ \E i \in 1..Len(After(o)), j \in 1..Len(Before(o)) :
              /\ After(o)[i].tokenId = Before(o)[j].tokenId
              /\ After(o)[i].isExpired # Before(o)[j].isExpired


(***************************************************************************)
(* C31: a second sweep at the same instant                                 *)
(***************************************************************************)
\* The call that returned last is a sweep that ran at the current time and
\* whose snapshot is the persisted one.
JustSwept ==
    /\ tasks[1].kind = "sweep" /\ tasks[1].pc = "saved"
    /\ tasks[1].at = now
    /\ store = SaveStorage(tasks[1].storage[1])

\* C31: a sweep that runs at the time of the sweep completed just before
\* it, no upsert in between, leaves the persisted snapshot as it is.
C31_SecondSweepChangesNothing == [][(JustSwept /\ Sweep) => store' = store]_vars

\* A sweep has run at the current time on a snapshot it left as it was,
\* after a sweep at the same time that removed a group: no sweep at an
\* earlier step of the clock could remove anything (the window had not
\* passed), a group that was created is gone, and no request observed at
\* the current time is stored, so that only sweeps have written at this
\* time.
C31_Witness ==
    /\ JustSwept
    /\ Before(tasks[1]) = After(tasks[1])
    /\ now > WindowMs /\ now - TickMs <= WindowMs
    /\ Persisted # <<>>
    /\ \E k \in 1..Len(inserted) : GroupsOf(Persisted, inserted[k]) = {}
    /\ \A i \in 1..Len(Persisted) : \A j \in 1..Len(Persisted[i].requests) :
          Persisted[i].requests[j].timestamp < now


(***************************************************************************)
(* C32: groups without requests                                            *)
(***************************************************************************)
\* C32: every group of every persisted snapshot holds at least one request
\* record, also after a sweep whose cutoff is the instant of the group's
\* last request.
C32_NoEmptyGroupPersisted ==
    \A i \in 1..Len(Persisted) : Len(Persisted[i].requests) >= 1

\* A sweep leaves a group without requests only when the group's lastSeen
\* is the sweep's cutoff or the group had none before, and an upsert leaves
\* without requests only groups it found so.
EmptyGroupOnlyAtCutoff ==
    /\ \A o \in SweepOps : \A i \in 1..Len(After(o)) :
          After(o)[i].requests = <<>> =>
              \/ After(o)[i].lastSeen = CutoffTime(o.at)
              \/ \E j \in 1..Len(Before(o)) :
                    /\ Before(o)[j].tokenId = After(o)[i].tokenId
                    /\ Before(o)[j].requests = <<>>
    /\ \A o \in UpsertOps : \A i \in 1..Len(After(o)) :
          After(o)[i].requests = <<>> =>
              \E j \in 1..Len(Before(o)) :
                    /\ Before(o)[j].tokenId = After(o)[i].tokenId
                    /\ Before(o)[j].requests = <<>>

====
